---- MODULE Spec2Model ----
(***************************************************************************)
(* Grid-trading order-lifecycle manager of ktrade:                         *)
(*   src/src/strategies/grid_order_manager.py  GridLevel, GridState,       *)
(*                                             GridOrderManager            *)
(*   src/src/strategies/grid_trading.py        GridTradingStrategy         *)
(*   src/src/api/alpaca_client.py              the broker facade           *)
(*                                                                         *)
(* Units.  Prices are integers in cents (round(x, 2) is a rounding to a    *)
(* whole number of cents), quantities are integers in 1e-4 units, money    *)
(* (total_invested, realized_profit) is price * quantity.  Percentages are *)
(* whole numbers.  Python's None is the empty tuple <<>> and a present     *)
(* optional value x is the one-element tuple <<x>>.                        *)
(***************************************************************************)
EXTENDS Integers, Sequences, FiniteSets, TLC

VARIABLES
    grid_symbols,   \* GridTradingStrategy.grid_symbols: the configured symbols
    grids,          \* GridOrderManager.grids: symbol -> GridState (a dict)
    store,          \* the file data/grid_state.json
    orders,         \* the broker's orders, in order of acceptance (id = index)
    position,       \* the broker's position per symbol (quantity held)
    now,            \* the clock datetime.utcnow() reads; it advances with every
                    \* operation until it reaches MaxTime
    faults,         \* number of failed broker calls / store writes so far
    last            \* the operation that ran last, with what it returned and called

vars == <<grid_symbols, grids, store, orders, position, now, faults, last>>

----------------------------------------------------------------------------
(* Bounds of the model *)

MaxOrders == 3      \* orders the broker accepts in one behaviour of Spec
MaxCycleOrders == 2 \* orders the broker accepts in one behaviour of a cycle spec
MaxFaults == 1      \* failed broker calls and store writes in one behaviour
MaxTime == 1        \* the clock stops advancing here

(* Inputs of the operations *)
AllSymbols == {"BTC/USD", "ETH/USD"}
Centers == {10000}
NewCenters == {10500}
Spacings == {2}
LevelCounts == {2}
NewLevelCounts == {1}
Qtys == {10}
CyclePrices == {8900, 10000, 10600, 11200}
CycleCenters == {10000}
PortfolioValues == {0, 10}
PriceImprovements == {0}

None == <<>>
Some(x) == <<x>>
Truthy(x) == x # None

Abs(x) == IF x < 0 THEN -x ELSE x

\* Python's round(num/den, 0) for den > 0: to the nearest integer, ties to even.
RoundDiv(num, den) ==
    LET q == num \div den
        r == num % den
    IN  IF 2 * r < den THEN q
        ELSE IF 2 * r > den THEN q + 1
        ELSE IF q % 2 = 0 THEN q ELSE q + 1

\* dict.get(key, default)
Get(d, k, default) == IF k \in DOMAIN d THEN d[k] ELSE default

----------------------------------------------------------------------------
(* datetime: a time t is a count of half seconds, so that odd times have a  *)
(* microsecond part and even times have none.                              *)

\* datetime.isoformat(): the fraction is printed only when it is not zero
isoformat(t) ==
    IF t % 2 = 0 THEN <<t \div 2>> ELSE <<t \div 2, 500000>>

\* datetime.fromisoformat()
fromisoformat(s) ==
    IF Len(s) = 1 THEN 2 * s[1] ELSE 2 * s[1] + (s[2] \div 500000)

----------------------------------------------------------------------------
(* GridLevel *)

GridLevel(level, price, order_type, order_id, status, filled_qty, filled_price) ==
    [level |-> level, price |-> price, order_type |-> order_type,
     order_id |-> order_id, status |-> status,
     filled_qty |-> filled_qty, filled_price |-> filled_price]

\* GridLevel.to_dict without the order_id
GridLevel_to_dict_NoOrderId(l) ==
    [level |-> l.level, price |-> l.price, order_type |-> l.order_type,
     order_id |-> None, status |-> l.status,
     filled_qty |-> l.filled_qty, filled_price |-> l.filled_price]

GridLevel_to_dict(l) ==
    [level |-> l.level, price |-> l.price, order_type |-> l.order_type,
     order_id |-> l.order_id, status |-> l.status,
     filled_qty |-> l.filled_qty, filled_price |-> l.filled_price]

\* GridLevel.from_dict without the filled_price
GridLevel_from_dict_NoFilledPrice(data) ==
    GridLevel(data["level"], data["price"], data["order_type"],
              Get(data, "order_id", None),
              Get(data, "status", "pending"),
              Get(data, "filled_qty", 0),
              None)

GridLevel_from_dict(data) ==
    GridLevel(data["level"], data["price"], data["order_type"],
              Get(data, "order_id", None),
              Get(data, "status", "pending"),
              Get(data, "filled_qty", 0),
              Get(data, "filled_price", None))

(* GridState *)

\* GridState.__init__: last_updated or datetime.utcnow()
GridState(symbol, center_price, qty_per_level, levels, total_invested, realized_profit, status, last_updated, t) ==
    [symbol |-> symbol, center_price |-> center_price,
     qty_per_level |-> qty_per_level, levels |-> levels,
     total_invested |-> total_invested, realized_profit |-> realized_profit,
     status |-> status,
     last_updated |-> IF Truthy(last_updated) THEN last_updated[1] ELSE t]

\* index in g.levels of the first level numbered n, 0 when there is none
LevelIndex(levels, n) ==
    IF \E i \in 1..Len(levels) : levels[i].level = n
    THEN CHOOSE i \in 1..Len(levels) :
            /\ levels[i].level = n
            /\ \A j \in 1..(i - 1) : levels[j].level # n
    ELSE 0

get_open_orders(g) ==
    SelectSeq(g.levels, LAMBDA l : l.status = "open")

get_filled_buys(g) ==
    SelectSeq(g.levels, LAMBDA l : l.order_type = "buy" /\ l.status = "filled")

GridState_to_dict(g) ==
    [symbol |-> g.symbol, center_price |-> g.center_price,
     qty_per_level |-> g.qty_per_level,
     levels |-> [i \in 1..Len(g.levels) |-> GridLevel_to_dict(g.levels[i])],
     total_invested |-> g.total_invested,
     realized_profit |-> g.realized_profit,
     status |-> g.status,
     last_updated |-> isoformat(g.last_updated)]

GridState_from_dict(data, t) ==
    LET ls == Get(data, "levels", <<>>)
        levels == [i \in 1..Len(ls) |-> GridLevel_from_dict(ls[i])]
        last_updated ==
            IF Truthy(Get(data, "last_updated", None))
            THEN Some(fromisoformat(data["last_updated"]))
            ELSE None
    IN  GridState(data["symbol"], data["center_price"],
                  Get(data, "qty_per_level", 0), levels,
                  Get(data, "total_invested", 0),
                  Get(data, "realized_profit", 0),
                  Get(data, "status", "active"),
                  last_updated, t)

----------------------------------------------------------------------------
(* The world an operation runs in.  Every operation is an operator from a   *)
(* world w to a world: w.grids, w.store, w.orders, w.position are the state *)
(* it reads and writes, w.calls the broker calls it has made so far,        *)
(* w.ops the manager operations the strategy has invoked, w.nf the number   *)
(* of calls that failed, w.saved the outcome of its last save_state and     *)
(* w.r the value last returned.  w.fills records, for every fill that       *)
(* check_and_update_orders has detected, the level, the order, the grid     *)
(* and the counts before and after the fill was handled, and the broker     *)
(* calls made while handling it.                                            *)
(* A plan p fixes which calls of the operation fail:                        *)
(*   p.place   the rungs whose place_limit_order raises                     *)
(*   p.query   the order ids whose get_order raises                         *)
(*   p.cancel  the order ids whose cancel_order fails at the broker         *)
(*   p.open    get_open_orders fails at the broker                          *)
(*   p.pos     get_positions raises                                         *)
(*   p.close   close_position raises                                        *)
(*   p.save    "ok", or how the write of the state file fails: "keep"       *)
(*             (the file cannot be opened) or "corrupt" (the file is cut)   *)
(***************************************************************************)

EmptyDict == <<>>

DictSet(d, k, v) == [x \in (DOMAIN d) \cup {k} |-> IF x = k THEN v ELSE d[x]]

NoFile == [kind |-> "nofile", doc |-> EmptyDict]
CorruptFile == [kind |-> "corrupt", doc |-> EmptyDict]
JsonFile(doc) == [kind |-> "json", doc |-> doc]

World(g, st, o, pos) ==
    [grids |-> g, store |-> st, orders |-> o, position |-> pos,
     calls |-> <<>>, ops |-> <<>>, fills |-> <<>>, ends |-> <<>>, nf |-> 0,
     saved |-> "none", errors |-> <<>>, r |-> None]

Call(name, symbol, arg, side, qty, price, coid, ok) ==
    [call |-> name, symbol |-> symbol, arg |-> arg, side |-> side,
     qty |-> qty, price |-> price, coid |-> coid, ok |-> ok]

NoPlan ==
    [place |-> {}, query |-> {}, cancel |-> {}, open |-> FALSE,
     pos |-> FALSE, close |-> FALSE, save |-> "ok"]

(* The broker facade, src/src/api/alpaca_client.py *)

\* An order at the broker.  rung and pair are not sent to the broker: rung is
\* the level the manager submitted the order for, pair the order whose fill
\* the manager answered with this one (0 for an initial buy).
Order(symbol, side, qty, limit_price, client_order_id, rung, pair) ==
    [symbol |-> symbol, side |-> side, qty |-> qty,
     limit_price |-> limit_price, client_order_id |-> client_order_id,
     status |-> "new", filled_qty |-> 0, filled_avg_price |-> None,
     rung |-> rung, pair |-> pair]

\* AlpacaClient.place_limit_order: w.r is Some(order id), or None when it raised
alpaca_place_limit_order(w, p, symbol, qty, limit_price, side, coid, rung, pair) ==
    IF rung \in p.place
    THEN [w EXCEPT !.nf = @ + 1, !.r = None,
            !.calls = Append(@, Call("place_limit_order", symbol, rung, side,
                                     qty, limit_price, coid, FALSE))]
    ELSE [w EXCEPT
            !.orders = Append(@, Order(symbol, side, qty, limit_price, coid, rung,
                                      pair)),
            !.r = Some(Len(w.orders) + 1),
            !.calls = Append(@, Call("place_limit_order", symbol, rung, side,
                                     qty, limit_price, coid, TRUE))]

\* AlpacaClient.cancel_order: never raises; w.r is Some(True / False)
alpaca_cancel_order(w, p, id) ==
    LET o == w.orders[id]
        done == id \notin p.cancel /\ o.status = "new"
    IN  [w EXCEPT
            !.orders[id].status = IF done THEN "canceled" ELSE @,
            !.nf = IF id \in p.cancel THEN @ + 1 ELSE @,
            !.r = Some(done),
            !.calls = Append(@, Call("cancel_order", o.symbol, id, "", 0, 0,
                                     <<>>, done))]

\* AlpacaClient.get_open_orders: never raises, a failure yields the empty list
OpenOrderIds(os, symbol) ==
    {id \in 1..Len(os) : os[id].symbol = symbol /\ os[id].status = "new"}

alpaca_get_open_orders(w, p, symbol) ==
    [w EXCEPT
        !.nf = IF p.open THEN @ + 1 ELSE @,
        !.r = IF p.open THEN {} ELSE OpenOrderIds(w.orders, symbol),
        !.calls = Append(@, Call("get_open_orders", symbol, 0, "", 0, 0,
                                 <<>>, ~p.open))]

\* AlpacaClient.get_order: w.r is Some(order), or None when it raised
alpaca_get_order(w, p, id) ==
    [w EXCEPT
        !.nf = IF id \in p.query THEN @ + 1 ELSE @,
        !.r = IF id \in p.query THEN None ELSE Some(w.orders[id]),
        !.calls = Append(@, Call("get_order", w.orders[id].symbol, id, "", 0, 0,
                                 <<>>, id \notin p.query))]

\* AlpacaClient.get_positions: w.r is Some(set of symbols held), None when it raised
alpaca_get_positions(w, p) ==
    [w EXCEPT
        !.nf = IF p.pos THEN @ + 1 ELSE @,
        !.r = IF p.pos THEN None
              ELSE Some({s \in DOMAIN w.position : w.position[s] # 0}),
        !.calls = Append(@, Call("get_positions", "", 0, "", 0, 0, <<>>, ~p.pos))]

\* AlpacaClient.close_position: the broker liquidates the whole position;
\* w.r is None when it raised
alpaca_close_position(w, p, symbol) ==
    [w EXCEPT
        !.position[symbol] = IF p.close THEN @ ELSE 0,
        !.nf = IF p.close THEN @ + 1 ELSE @,
        !.r = IF p.close THEN None ELSE Some(TRUE),
        !.calls = Append(@, Call("close_position", symbol, 0, "", 0, 0, <<>>,
                                 ~p.close))]

----------------------------------------------------------------------------
(* GridOrderManager *)

\* GridOrderManager.save_state in the world w
Saved(w, p) ==
    IF p.save = "ok"
    THEN [w EXCEPT
            !.store = JsonFile([s \in DOMAIN w.grids |-> GridState_to_dict(w.grids[s])]),
            !.saved = "ok"]
    ELSE [w EXCEPT
            !.store = IF p.save = "corrupt" THEN CorruptFile ELSE @,
            !.saved = "failed",
            !.nf = IF w.saved = "failed" THEN @ ELSE @ + 1]

\* GridOrderManager.save_state; the world it is called in is computed once
save_state(w, p) == CHOOSE r \in {Saved(x, p) : x \in {w}} : TRUE

\* GridOrderManager.load_state: the grids a new manager starts with
load_state(st, t) ==
    IF st.kind = "json"
    THEN [s \in DOMAIN st.doc |-> GridState_from_dict(st.doc[s], t)]
    ELSE EmptyDict

\* LevelPrice cut to whole cents instead of rounded
LevelPrice_Truncated(center_price, spacing_pct, sign, i) ==
    (center_price * (100 + sign * spacing_pct * i)) \div 100

\* round(center_price * (1 + sign * (spacing_pct / 100) * i), 2)
LevelPrice(center_price, spacing_pct, sign, i) ==
    RoundDiv(center_price * (100 + sign * spacing_pct * i), 100)

\* initialize_grid that carries the totals of the grid it replaces
initialize_grid_KeepsTotals(w, p, t, symbol, center_price, spacing_pct, num_levels, qty_per_level) ==
    LET levels ==
            [k \in 1..(2 * num_levels) |->
                IF k <= num_levels
                THEN GridLevel(-k, LevelPrice(center_price, spacing_pct, -1, k),
                               "buy", None, "pending", 0, None)
                ELSE GridLevel(k - num_levels,
                               LevelPrice(center_price, spacing_pct, 1, k - num_levels),
                               "sell", None, "pending", 0, None)]
        grid == GridState(symbol, center_price, qty_per_level, levels,
                          IF symbol \in DOMAIN w.grids
                          THEN w.grids[symbol].total_invested ELSE 0,
                          IF symbol \in DOMAIN w.grids
                          THEN w.grids[symbol].realized_profit ELSE 0,
                          "active", None, t)
        w1 == [w EXCEPT !.grids = DictSet(@, symbol, grid)]
    IN  [save_state(w1, p) EXCEPT !.r = Some(grid)]

\* GridOrderManager.initialize_grid
initialize_grid(w, p, t, symbol, center_price, spacing_pct, num_levels, qty_per_level) ==
    LET levels ==
            [k \in 1..(2 * num_levels) |->
                IF k <= num_levels
                THEN GridLevel(-k, LevelPrice(center_price, spacing_pct, -1, k),
                               "buy", None, "pending", 0, None)
                ELSE GridLevel(k - num_levels,
                               LevelPrice(center_price, spacing_pct, 1, k - num_levels),
                               "sell", None, "pending", 0, None)]
        grid == GridState(symbol, center_price, qty_per_level, levels, 0, 0,
                          "active", None, t)
        w1 == [w EXCEPT !.grids = DictSet(@, symbol, grid)]
    IN  [save_state(w1, p) EXCEPT !.r = Some(grid)]

\* Active that takes every grid the manager holds for an active one
Active_AnyGrid(w, symbol) ==
    symbol \in DOMAIN w.grids

\* the guard of place_grid_orders and check_and_update_orders
Active(w, symbol) ==
    symbol \in DOMAIN w.grids /\ w.grids[symbol].status = "active"

RECURSIVE PlaceLoop(_, _, _, _, _)
\* PlaceLoop with a placed level given its order_id but left pending
PlaceLoop_KeepsPending(w, p, symbol, i, n) ==
    LET grid == w.grids[symbol] IN
    IF i > Len(grid.levels) THEN [w EXCEPT !.r = n]
    ELSE
        LET level == grid.levels[i] IN
        IF level.status = "pending" /\ level.order_type = "buy"
        THEN
            LET w1 == alpaca_place_limit_order(w, p, symbol, grid.qty_per_level,
                          level.price, "buy",
                          <<"grid", symbol, "", level.level>>, level.level, 0)
            IN  IF w1.r = None
                THEN PlaceLoop(w1, p, symbol, i + 1, n)
                ELSE PlaceLoop(
                        [w1 EXCEPT !.grids[symbol].levels[i].order_id = w1.r],
                        p, symbol, i + 1, n + 1)
        ELSE PlaceLoop(w, p, symbol, i + 1, n)

\* PlaceLoop counting a refused order as placed
PlaceLoop_CountsRefused(w, p, symbol, i, n) ==
    LET grid == w.grids[symbol] IN
    IF i > Len(grid.levels) THEN [w EXCEPT !.r = n]
    ELSE
        LET level == grid.levels[i] IN
        IF level.status = "pending" /\ level.order_type = "buy"
        THEN
            LET w1 == alpaca_place_limit_order(w, p, symbol, grid.qty_per_level,
                          level.price, "buy",
                          <<"grid", symbol, "", level.level>>, level.level, 0)
            IN  IF w1.r = None
                THEN PlaceLoop(w1, p, symbol, i + 1, n + 1)
                ELSE PlaceLoop(
                        [w1 EXCEPT !.grids[symbol].levels[i].order_id = w1.r,
                                   !.grids[symbol].levels[i].status = "open"],
                        p, symbol, i + 1, n + 1)
        ELSE PlaceLoop(w, p, symbol, i + 1, n)

\* the loop of place_grid_orders from level number i on; n orders placed so far
PlaceLoop(w, p, symbol, i, n) ==
    LET grid == w.grids[symbol] IN
    IF i > Len(grid.levels) THEN [w EXCEPT !.r = n]
    ELSE
        LET level == grid.levels[i] IN
        IF level.status = "pending" /\ level.order_type = "buy"
        THEN
            LET w1 == alpaca_place_limit_order(w, p, symbol, grid.qty_per_level,
                          level.price, "buy",
                          <<"grid", symbol, "", level.level>>, level.level, 0)
            IN  IF w1.r = None
                THEN PlaceLoop(w1, p, symbol, i + 1, n)
                ELSE PlaceLoop(
                        [w1 EXCEPT !.grids[symbol].levels[i].order_id = w1.r,
                                   !.grids[symbol].levels[i].status = "open"],
                        p, symbol, i + 1, n + 1)
        ELSE PlaceLoop(w, p, symbol, i + 1, n)

\* GridOrderManager.place_grid_orders
place_grid_orders(w, p, t, symbol) ==
    IF ~Active(w, symbol) THEN [w EXCEPT !.r = 0]
    ELSE
        LET w1 == PlaceLoop(w, p, symbol, 1, 0)
            w2 == [w1 EXCEPT !.grids[symbol].last_updated = t]
        IN  save_state(w2, p)     \* returns the count PlaceLoop left in w.r

\* the spacing check_and_update_orders prices replacement orders with
ReplacementSpacingPct == 2

Results(b, s, o) == [buys_filled |-> b, sells_filled |-> s, orders_placed |-> o]

\* BuyFilled with the sell placed on the rung of the buy itself, not the next
\* one up
BuyFilled_SameRung(w, p, symbol, i, res) ==
    LET grid == w.grids[symbol]
        level == grid.levels[i]
        res1 == [res EXCEPT !.buys_filled = @ + 1]
        w1 == [w EXCEPT !.grids[symbol].total_invested =
                            @ + level.filled_price[1] * level.filled_qty]
        sell_level == level.level
        sell_price == RoundDiv(
            grid.center_price * (100 + ReplacementSpacingPct * sell_level), 100)
        w2 == alpaca_place_limit_order(w1, p, symbol, level.filled_qty, sell_price,
                  "sell", <<"grid", symbol, "sell", level.level>>, sell_level,
                  level.order_id[1])
        existing_sell == LevelIndex(grid.levels, sell_level)
    IN  IF w2.r = None
        THEN [w2 EXCEPT !.r = res1]
        ELSE [w2 EXCEPT !.grids[symbol].levels[existing_sell].order_id = w2.r,
                        !.grids[symbol].levels[existing_sell].status = "open",
                        !.r = [res1 EXCEPT !.orders_placed = @ + 1]]

\* BuyFilled that appends the sell level without looking for an existing one
BuyFilled_AlwaysAppends(w, p, symbol, i, res) ==
    LET grid == w.grids[symbol]
        level == grid.levels[i]
        res1 == [res EXCEPT !.buys_filled = @ + 1]
        w1 == [w EXCEPT !.grids[symbol].total_invested =
                            @ + level.filled_price[1] * level.filled_qty]
        sell_level == level.level + 1
        sell_price == RoundDiv(
            grid.center_price * (100 + ReplacementSpacingPct * sell_level), 100)
        w2 == alpaca_place_limit_order(w1, p, symbol, level.filled_qty, sell_price,
                  "sell", <<"grid", symbol, "sell", level.level>>, sell_level,
                  level.order_id[1])
    IN  IF w2.r = None
        THEN [w2 EXCEPT !.r = res1]
        ELSE [w2 EXCEPT !.grids[symbol].levels =
                            Append(@, GridLevel(sell_level, sell_price, "sell",
                                                w2.r, "open", 0, None)),
                        !.r = [res1 EXCEPT !.orders_placed = @ + 1]]

\* check_and_update_orders, a buy level i found filled: book it, place the sell
BuyFilled(w, p, symbol, i, res) ==
    LET grid == w.grids[symbol]
        level == grid.levels[i]
        res1 == [res EXCEPT !.buys_filled = @ + 1]
        w1 == [w EXCEPT !.grids[symbol].total_invested =
                            @ + level.filled_price[1] * level.filled_qty]
        sell_level == level.level + 1
        sell_price == RoundDiv(
            grid.center_price * (100 + ReplacementSpacingPct * sell_level), 100)
        w2 == alpaca_place_limit_order(w1, p, symbol, level.filled_qty, sell_price,
                  "sell", <<"grid", symbol, "sell", level.level>>, sell_level,
                  level.order_id[1])
        existing_sell == LevelIndex(grid.levels, sell_level)
    IN  IF w2.r = None
        THEN [w2 EXCEPT !.r = res1]
        ELSE IF existing_sell # 0
        THEN [w2 EXCEPT !.grids[symbol].levels[existing_sell].order_id = w2.r,
                        !.grids[symbol].levels[existing_sell].status = "open",
                        !.r = [res1 EXCEPT !.orders_placed = @ + 1]]
        ELSE [w2 EXCEPT !.grids[symbol].levels =
                            Append(@, GridLevel(sell_level, sell_price, "sell",
                                                w2.r, "open", 0, None)),
                        !.r = [res1 EXCEPT !.orders_placed = @ + 1]]

\* SellFilled with the rebuy level reopened but its old fill not cleared
SellFilled_StaleFill(w, p, symbol, i, res) ==
    LET grid == w.grids[symbol]
        level == grid.levels[i]
        res1 == [res EXCEPT !.sells_filled = @ + 1]
        profit == (level.filled_price[1] - grid.center_price) * level.filled_qty
        w1 == [w EXCEPT !.grids[symbol].realized_profit = @ + profit,
                        !.grids[symbol].total_invested =
                            @ - level.filled_price[1] * level.filled_qty]
        buy_level == level.level - 1
        buy_price == RoundDiv(
            grid.center_price * (100 - ReplacementSpacingPct * Abs(buy_level)), 100)
        w2 == alpaca_place_limit_order(w1, p, symbol, grid.qty_per_level, buy_price,
                  "buy", <<"grid", symbol, "rebuy", buy_level>>, buy_level,
                  level.order_id[1])
        original_buy == LevelIndex(grid.levels, buy_level)
    IN  IF w2.r = None
        THEN [w2 EXCEPT !.r = res1]
        ELSE IF original_buy # 0
        THEN [w2 EXCEPT !.grids[symbol].levels[original_buy].order_id = w2.r,
                        !.grids[symbol].levels[original_buy].status = "open",
                        !.r = [res1 EXCEPT !.orders_placed = @ + 1]]
        ELSE [w2 EXCEPT !.r = [res1 EXCEPT !.orders_placed = @ + 1]]

\* check_and_update_orders, a sell level i found filled: book it, place the rebuy
SellFilled(w, p, symbol, i, res) ==
    LET grid == w.grids[symbol]
        level == grid.levels[i]
        res1 == [res EXCEPT !.sells_filled = @ + 1]
        profit == (level.filled_price[1] - grid.center_price) * level.filled_qty
        w1 == [w EXCEPT !.grids[symbol].realized_profit = @ + profit,
                        !.grids[symbol].total_invested =
                            @ - level.filled_price[1] * level.filled_qty]
        buy_level == level.level - 1
        buy_price == RoundDiv(
            grid.center_price * (100 - ReplacementSpacingPct * Abs(buy_level)), 100)
        w2 == alpaca_place_limit_order(w1, p, symbol, grid.qty_per_level, buy_price,
                  "buy", <<"grid", symbol, "rebuy", buy_level>>, buy_level,
                  level.order_id[1])
        original_buy == LevelIndex(grid.levels, buy_level)
    IN  IF w2.r = None
        THEN [w2 EXCEPT !.r = res1]
        ELSE IF original_buy # 0
        THEN [w2 EXCEPT !.grids[symbol].levels[original_buy].order_id = w2.r,
                        !.grids[symbol].levels[original_buy].status = "open",
                        !.grids[symbol].levels[original_buy].filled_qty = 0,
                        !.grids[symbol].levels[original_buy].filled_price = None,
                        !.r = [res1 EXCEPT !.orders_placed = @ + 1]]
        ELSE [w2 EXCEPT !.r = [res1 EXCEPT !.orders_placed = @ + 1]]

\* CheckLevel with a filled level given its fill but left open
CheckLevel_StaysOpen(w, p, symbol, i, res) ==
    LET level == w.grids[symbol].levels[i]
        w1 == alpaca_get_order(w, p, level.order_id[1])
    IN  IF w1.r = None THEN [w1 EXCEPT !.r = res]
        ELSE
            LET order == w1.r[1] IN
            IF order.status = "filled"
            THEN
                LET w2 == [w1 EXCEPT
                        !.grids[symbol].levels[i].filled_qty = order.filled_qty,
                        !.grids[symbol].levels[i].filled_price = order.filled_avg_price]
                IN  IF level.order_type = "buy"
                    THEN BuyFilled(w2, p, symbol, i, res)
                    ELSE SellFilled(w2, p, symbol, i, res)
            ELSE IF order.status \in {"canceled", "cancelled", "expired"}
            THEN [w1 EXCEPT !.grids[symbol].levels[i].status = "cancelled",
                            !.r = res]
            ELSE [w1 EXCEPT !.r = res]

\* CheckLevel with a level whose order was cancelled or expired made pending
\* again
CheckLevel_EndedToPending(w, p, symbol, i, res) ==
    LET level == w.grids[symbol].levels[i]
        w1 == alpaca_get_order(w, p, level.order_id[1])
    IN  IF w1.r = None THEN [w1 EXCEPT !.r = res]
        ELSE
            LET order == w1.r[1] IN
            IF order.status = "filled"
            THEN
                LET w2 == [w1 EXCEPT
                        !.grids[symbol].levels[i].status = "filled",
                        !.grids[symbol].levels[i].filled_qty = order.filled_qty,
                        !.grids[symbol].levels[i].filled_price = order.filled_avg_price]
                    w3 == IF order.filled_avg_price = None
                          THEN [w2 EXCEPT !.r = res]     \* None * qty raises
                          ELSE IF level.order_type = "buy"
                          THEN BuyFilled(w2, p, symbol, i, res)
                          ELSE IF level.order_type = "sell"
                          THEN SellFilled(w2, p, symbol, i, res)
                          ELSE [w2 EXCEPT !.r = res]
                IN  [w3 EXCEPT !.fills = Append(@,
                        [index |-> i, level |-> level.level,
                         order_type |-> level.order_type,
                         order_id |-> level.order_id[1], order |-> order,
                         norders |-> Len(w.orders),
                         before |-> w.grids[symbol], after |-> w3.grids[symbol],
                         res_before |-> res, res_after |-> w3.r,
                         calls |-> SubSeq(w3.calls, Len(w1.calls) + 1,
                                          Len(w3.calls))])]
            ELSE IF order.status \in {"canceled", "cancelled", "expired"}
            THEN
                LET w2 == [w1 EXCEPT !.grids[symbol].levels[i].status = "pending",
                                     !.r = res]
                IN  [w2 EXCEPT !.ends = Append(@,
                        [index |-> i, level |-> level.level,
                         order_id |-> level.order_id[1], order |-> order,
                         norders |-> Len(w.orders),
                         before |-> w.grids[symbol], after |-> w2.grids[symbol],
                         res_before |-> res, res_after |-> w2.r,
                         calls |-> SubSeq(w2.calls, Len(w1.calls) + 1,
                                          Len(w2.calls))])]
            ELSE [w1 EXCEPT !.r = res]

\* check_and_update_orders, level i whose order is no longer open: w.r is the counts
CheckLevel(w, p, symbol, i, res) ==
    LET level == w.grids[symbol].levels[i]
        w1 == alpaca_get_order(w, p, level.order_id[1])
    IN  IF w1.r = None THEN [w1 EXCEPT !.r = res]
        ELSE
            LET order == w1.r[1] IN
            IF order.status = "filled"
            THEN
                LET w2 == [w1 EXCEPT
                        !.grids[symbol].levels[i].status = "filled",
                        !.grids[symbol].levels[i].filled_qty = order.filled_qty,
                        !.grids[symbol].levels[i].filled_price = order.filled_avg_price]
                    \* the world the branch leaves is computed once
                    w3s == {IF order.filled_avg_price = None
                            THEN [w2 EXCEPT !.r = res]     \* None * qty raises
                            ELSE IF level.order_type = "buy"
                            THEN BuyFilled(w2, p, symbol, i, res)
                            ELSE IF level.order_type = "sell"
                            THEN SellFilled(w2, p, symbol, i, res)
                            ELSE [w2 EXCEPT !.r = res]}
                IN  CHOOSE r \in {[w3 EXCEPT !.fills = Append(@,
                        [index |-> i, level |-> level.level,
                         order_type |-> level.order_type,
                         order_id |-> level.order_id[1], order |-> order,
                         norders |-> Len(w.orders),
                         before |-> w.grids[symbol], after |-> w3.grids[symbol],
                         res_before |-> res, res_after |-> w3.r,
                         calls |-> SubSeq(w3.calls, Len(w1.calls) + 1,
                                          Len(w3.calls))])] : w3 \in w3s} : TRUE
            ELSE IF order.status \in {"canceled", "cancelled", "expired"}
            THEN
                LET w2 == [w1 EXCEPT !.grids[symbol].levels[i].status = "cancelled",
                                     !.r = res]
                IN  [w2 EXCEPT !.ends = Append(@,
                        [index |-> i, level |-> level.level,
                         order_id |-> level.order_id[1], order |-> order,
                         norders |-> Len(w.orders),
                         before |-> w.grids[symbol], after |-> w2.grids[symbol],
                         res_before |-> res, res_after |-> w2.r,
                         calls |-> SubSeq(w2.calls, Len(w1.calls) + 1,
                                          Len(w2.calls))])]
            ELSE [w1 EXCEPT !.r = res]

RECURSIVE CheckLoop(_, _, _, _, _, _)
\* CheckLoop leaving the loop at the first level with a failed broker call
CheckLoop_StopsAtFailure(w, p, symbol, open_order_ids, i, res) ==
    LET grid == w.grids[symbol] IN
    IF i > Len(grid.levels) THEN [w EXCEPT !.r = res]
    ELSE
        LET level == grid.levels[i] IN
        IF level.status # "open" \/ ~Truthy(level.order_id)
        THEN CheckLoop(w, p, symbol, open_order_ids, i + 1, res)
        ELSE IF level.order_id[1] \in open_order_ids
        THEN CheckLoop(w, p, symbol, open_order_ids, i + 1, res)
        ELSE
            LET w1 == CheckLevel(w, p, symbol, i, res)
            IN  IF w1.nf > w.nf THEN w1
                ELSE CheckLoop(w1, p, symbol, open_order_ids, i + 1, w1.r)

\* the loop of check_and_update_orders from level number i on (the loop sees
\* the levels it appends)
CheckLoop(w, p, symbol, open_order_ids, i, res) ==
    LET grid == w.grids[symbol] IN
    IF i > Len(grid.levels) THEN [w EXCEPT !.r = res]
    ELSE
        LET level == grid.levels[i] IN
        IF level.status # "open" \/ ~Truthy(level.order_id)
        THEN CheckLoop(w, p, symbol, open_order_ids, i + 1, res)
        ELSE IF level.order_id[1] \in open_order_ids
        THEN CheckLoop(w, p, symbol, open_order_ids, i + 1, res)
        ELSE
            \* the world CheckLevel leaves is computed once
            CHOOSE r \in {CheckLoop(w1, p, symbol, open_order_ids, i + 1, w1.r) :
                            w1 \in {CheckLevel(w, p, symbol, i, res)}} : TRUE

\* GridOrderManager.check_and_update_orders
check_and_update_orders(w, p, t, symbol) ==
    IF ~Active(w, symbol) THEN [w EXCEPT !.r = Results(0, 0, 0)]
    ELSE
        LET w0 == alpaca_get_open_orders(w, p, symbol)
            w1 == CheckLoop(w0, p, symbol, w0.r, 1, Results(0, 0, 0))
            w2 == [w1 EXCEPT !.grids[symbol].last_updated = t]
        IN  save_state(w2, p)     \* returns the counts CheckLoop left in w.r

RECURSIVE CancelLoop(_, _, _, _, _)
\* the loop of cancel_all_orders from level number i on; n cancelled so far
CancelLoop(w, p, symbol, i, n) ==
    LET grid == w.grids[symbol] IN
    IF i > Len(grid.levels) THEN [w EXCEPT !.r = n]
    ELSE
        LET level == grid.levels[i] IN
        IF level.status = "open" /\ Truthy(level.order_id)
        THEN
            LET w1 == alpaca_cancel_order(w, p, level.order_id[1])
            IN  CancelLoop([w1 EXCEPT !.grids[symbol].levels[i].status = "cancelled"],
                           p, symbol, i + 1, n + 1)
        ELSE CancelLoop(w, p, symbol, i + 1, n)

\* GridOrderManager.cancel_all_orders
cancel_all_orders(w, p, t, symbol) ==
    IF symbol \notin DOMAIN w.grids THEN [w EXCEPT !.r = 0]
    ELSE
        LET w1 == CancelLoop(w, p, symbol, 1, 0)
            w2 == [w1 EXCEPT !.grids[symbol].status = "stopped",
                             !.grids[symbol].last_updated = t]
        IN  save_state(w2, p)     \* returns the count CancelLoop left in w.r

StopResult(c, pc, rp) ==
    [orders_cancelled |-> c, positions_closed |-> pc, realized_profit |-> rp]

\* GridOrderManager.stop_grid
stop_grid(w, p, t, symbol) ==
    IF symbol \notin DOMAIN w.grids THEN [w EXCEPT !.r = [error |-> "Grid not found"]]
    ELSE
        LET w1 == cancel_all_orders(w, p, t, symbol)
            cancelled == w1.r
            filled_buys == get_filled_buys(w1.grids[symbol])
            w2 == IF Len(filled_buys) > 0 THEN alpaca_get_positions(w1, p) ELSE w1
            held == Len(filled_buys) > 0 /\ w2.r # None /\ symbol \in w2.r[1]
            w3 == IF held THEN alpaca_close_position(w2, p, symbol) ELSE w2
            positions_closed == IF held /\ w3.r # None THEN 1 ELSE 0
            w4 == [w3 EXCEPT !.grids[symbol].status = "stopped"]
        IN  [save_state(w4, p) EXCEPT
                !.r = StopResult(cancelled, positions_closed,
                                 w4.grids[symbol].realized_profit)]

\* recenter_grid without the cancellation of the existing orders
recenter_grid_KeepsOrders(w, p, t, symbol, new_center, spacing_pct, num_levels) ==
    IF symbol \notin DOMAIN w.grids THEN [w EXCEPT !.r = FALSE]
    ELSE
        LET grid == w.grids[symbol]
            w2 == initialize_grid(w, p, t, symbol, new_center, spacing_pct,
                                  num_levels, grid.qty_per_level)
            w3 == place_grid_orders(w2, p, t, symbol)
        IN  [w3 EXCEPT !.r = TRUE]

\* GridOrderManager.recenter_grid
recenter_grid(w, p, t, symbol, new_center, spacing_pct, num_levels) ==
    IF symbol \notin DOMAIN w.grids THEN [w EXCEPT !.r = FALSE]
    ELSE
        LET grid == w.grids[symbol]
            w1 == cancel_all_orders(w, p, t, symbol)
            w2 == initialize_grid(w1, p, t, symbol, new_center, spacing_pct,
                                  num_levels, grid.qty_per_level)
            w3 == place_grid_orders(w2, p, t, symbol)
        IN  [w3 EXCEPT !.r = TRUE]

----------------------------------------------------------------------------
(* GridTradingStrategy.  Its configuration comes from the settings.  The     *)
(* market data an iteration reads is its input inp:                          *)
(*   inp.price   _get_current_price: Some(last close), None when unavailable *)
(*   inp.center  _calculate_grid_center: Some(24h mean), None when there are *)
(*               fewer than 12 bars or get_bars raised                       *)
(*   inp.pv      get_account's portfolio_value in dollars, None when it      *)
(*               raised                                                      *)
(*   inp.raises  an exception escaping _manage_symbol_grid: "no", "before"   *)
(*               it called the manager or "after" the calls returned.  The   *)
(*               helpers and the manager catch what the broker raises, so    *)
(*               this is whatever else goes wrong while a symbol is managed. *)
(***************************************************************************)

grid_spacing_pct == 2
grid_levels == 1
grid_allocation_pct == 20
grid_boundary_stop_pct == 10
grid_recenter_threshold_pct == 5

Result(action, details) == [action |-> action, details |-> details]

\* get_grid_status that counts the open levels by status alone
get_grid_status_CountsAllOpen(w, symbol) ==
    IF symbol \notin DOMAIN w.grids THEN [w EXCEPT !.r = None]
    ELSE
        LET grid == w.grids[symbol]
            count(ot, st) ==
                Len(SelectSeq(grid.levels,
                              LAMBDA l : (st = "open" \/ l.order_type = ot)
                                         /\ l.status = st))
        IN  [w EXCEPT !.r = Some(
                [symbol |-> symbol, status |-> grid.status,
                 center_price |-> grid.center_price,
                 open_buy_orders |-> count("buy", "open"),
                 open_sell_orders |-> count("sell", "open"),
                 filled_positions |-> count("buy", "filled"),
                 total_invested |-> grid.total_invested,
                 realized_profit |-> grid.realized_profit,
                 last_updated |-> isoformat(grid.last_updated)])]

\* GridOrderManager.get_grid_status: w.r is None or Some(status dict)
get_grid_status(w, symbol) ==
    IF symbol \notin DOMAIN w.grids THEN [w EXCEPT !.r = None]
    ELSE
        LET grid == w.grids[symbol]
            count(ot, st) ==
                Len(SelectSeq(grid.levels,
                              LAMBDA l : l.order_type = ot /\ l.status = st))
        IN  [w EXCEPT !.r = Some(
                [symbol |-> symbol, status |-> grid.status,
                 center_price |-> grid.center_price,
                 open_buy_orders |-> count("buy", "open"),
                 open_sell_orders |-> count("sell", "open"),
                 filled_positions |-> count("buy", "filled"),
                 total_invested |-> grid.total_invested,
                 realized_profit |-> grid.realized_profit,
                 last_updated |-> isoformat(grid.last_updated)])]

\* GridTradingStrategy._calculate_qty_per_level, in 1e-4 units
calculate_qty_per_level(symbol, center_price, pv) ==
    IF pv = None THEN 0
    ELSE
        LET num == pv[1] * grid_allocation_pct
            den == grid_levels * center_price
        IN  IF symbol = "BTC/USD" THEN RoundDiv(num * 10000, den)
            ELSE IF symbol = "ETH/USD" THEN RoundDiv(num * 1000, den) * 10
            ELSE RoundDiv(num * 100, den) * 100

\* GridTradingStrategy._check_boundary_break
check_boundary_break(w, symbol, current_price) ==
    LET st == get_grid_status(w, symbol).r IN
    IF st = None THEN FALSE
    ELSE
        LET center_price == st[1].center_price IN
        \/ current_price * 100 > center_price * (100 + grid_boundary_stop_pct)
        \/ current_price * 100 < center_price * (100 - grid_boundary_stop_pct)

\* GridTradingStrategy._check_recenter_needed
check_recenter_needed(w, symbol, current_price) ==
    LET st == get_grid_status(w, symbol).r IN
    IF st = None THEN FALSE
    ELSE
        LET center_price == st[1].center_price IN
        Abs(current_price - center_price) * 100
            > grid_recenter_threshold_pct * center_price

Invoke(w, name, symbol) == [w EXCEPT !.ops = Append(@, <<name, symbol>>)]

\* _initialize_new_grid that goes on with a quantity of zero
initialize_new_grid_AllowsZero(w, p, t, symbol, current_price, inp) ==
    LET center_price == IF Truthy(inp.center) THEN inp.center[1] ELSE current_price
        qty_per_level == calculate_qty_per_level(symbol, center_price, inp.pv)
    IN  IF qty_per_level < 0
        THEN [w EXCEPT !.r = Result("initialize",
                    [error |-> "Insufficient allocation for grid"])]
        ELSE
            LET w1 == initialize_grid(Invoke(w, "initialize_grid", symbol), p, t, symbol,
                          center_price, grid_spacing_pct, grid_levels, qty_per_level)
                w2 == place_grid_orders(Invoke(w1, "place_grid_orders", symbol), p, t, symbol)
            IN  [w2 EXCEPT !.r = Result("initialize",
                    [center_price |-> center_price,
                     qty_per_level |-> qty_per_level,
                     orders_placed |-> @])]

\* GridTradingStrategy._initialize_new_grid
initialize_new_grid(w, p, t, symbol, current_price, inp) ==
    LET center_price == IF Truthy(inp.center) THEN inp.center[1] ELSE current_price
        qty_per_level == calculate_qty_per_level(symbol, center_price, inp.pv)
    IN  IF qty_per_level <= 0
        THEN [w EXCEPT !.r = Result("initialize",
                    [error |-> "Insufficient allocation for grid"])]
        ELSE
            LET w1 == initialize_grid(Invoke(w, "initialize_grid", symbol), p, t, symbol,
                          center_price, grid_spacing_pct, grid_levels, qty_per_level)
                w2 == place_grid_orders(Invoke(w1, "place_grid_orders", symbol), p, t, symbol)
            IN  [w2 EXCEPT !.r = Result("initialize",
                    [center_price |-> center_price,
                     qty_per_level |-> qty_per_level,
                     orders_placed |-> @])]

\* _manage_symbol_grid with the recenter test ahead of the boundary test
manage_symbol_grid_RecenterFirst(w, p, t, symbol, inp) ==
    IF ~Truthy(inp.price) \/ inp.price[1] = 0
    THEN [w EXCEPT !.r = Result("error", [error |-> "Could not get current price"])]
    ELSE
        LET current_price == inp.price[1]
            grid_status == get_grid_status(w, symbol).r
        IN  IF grid_status = None \/ grid_status[1].status = "stopped"
            THEN initialize_new_grid(w, p, t, symbol, current_price, inp)
            ELSE IF check_recenter_needed(w, symbol, current_price)
            THEN
                IF Truthy(inp.center)
                THEN
                    LET w1 == recenter_grid(Invoke(w, "recenter_grid", symbol), p, t, symbol,
                                  inp.center[1], grid_spacing_pct, grid_levels)
                    IN  [w1 EXCEPT !.r = Result("recenter",
                                                [new_center |-> inp.center[1]])]
                ELSE [w EXCEPT !.r = Result("recenter", EmptyDict)]
            ELSE IF check_boundary_break(w, symbol, current_price)
            THEN
                LET w1 == stop_grid(Invoke(w, "stop_grid", symbol), p, t, symbol)
                IN  [w1 EXCEPT !.r = Result("boundary_stop", @)]
            ELSE
                LET w1 == check_and_update_orders(
                              Invoke(w, "check_and_update_orders", symbol), p, t, symbol)
                IN  [w1 EXCEPT !.r = Result("update", @)]

\* _manage_symbol_grid that still updates the orders of a symbol without a price
manage_symbol_grid_UpdatesUnpriced(w, p, t, symbol, inp) ==
    IF ~Truthy(inp.price) \/ inp.price[1] = 0
    THEN
        LET w1 == IF symbol \in DOMAIN w.grids
                  THEN check_and_update_orders(
                           Invoke(w, "check_and_update_orders", symbol), p, t, symbol)
                  ELSE w
        IN  [w1 EXCEPT !.r = Result("error", [error |-> "Could not get current price"])]
    ELSE
        LET current_price == inp.price[1]
            grid_status == get_grid_status(w, symbol).r
        IN  IF grid_status = None \/ grid_status[1].status = "stopped"
            THEN initialize_new_grid(w, p, t, symbol, current_price, inp)
            ELSE IF check_boundary_break(w, symbol, current_price)
            THEN
                LET w1 == stop_grid(Invoke(w, "stop_grid", symbol), p, t, symbol)
                IN  [w1 EXCEPT !.r = Result("boundary_stop", @)]
            ELSE IF check_recenter_needed(w, symbol, current_price)
            THEN
                IF Truthy(inp.center)
                THEN
                    LET w1 == recenter_grid(Invoke(w, "recenter_grid", symbol), p, t, symbol,
                                  inp.center[1], grid_spacing_pct, grid_levels)
                    IN  [w1 EXCEPT !.r = Result("recenter",
                                                [new_center |-> inp.center[1]])]
                ELSE [w EXCEPT !.r = Result("recenter", EmptyDict)]
            ELSE
                LET w1 == check_and_update_orders(
                              Invoke(w, "check_and_update_orders", symbol), p, t, symbol)
                IN  [w1 EXCEPT !.r = Result("update", @)]

\* GridTradingStrategy._manage_symbol_grid
manage_symbol_grid(w, p, t, symbol, inp) ==
    IF ~Truthy(inp.price) \/ inp.price[1] = 0
    THEN [w EXCEPT !.r = Result("error", [error |-> "Could not get current price"])]
    ELSE
        LET current_price == inp.price[1]
            grid_status == get_grid_status(w, symbol).r
        IN  IF grid_status = None \/ grid_status[1].status = "stopped"
            THEN initialize_new_grid(w, p, t, symbol, current_price, inp)
            ELSE IF check_boundary_break(w, symbol, current_price)
            THEN
                LET w1 == stop_grid(Invoke(w, "stop_grid", symbol), p, t, symbol)
                IN  [w1 EXCEPT !.r = Result("boundary_stop", @)]
            ELSE IF check_recenter_needed(w, symbol, current_price)
            THEN
                IF Truthy(inp.center)
                THEN
                    LET w1 == recenter_grid(Invoke(w, "recenter_grid", symbol), p, t, symbol,
                                  inp.center[1], grid_spacing_pct, grid_levels)
                    IN  [w1 EXCEPT !.r = Result("recenter",
                                                [new_center |-> inp.center[1]])]
                ELSE [w EXCEPT !.r = Result("recenter", EmptyDict)]
            ELSE
                LET w1 == check_and_update_orders(
                              Invoke(w, "check_and_update_orders", symbol), p, t, symbol)
                IN  [w1 EXCEPT !.r = Result("update", @)]

RECURSIVE CycleLoop_StopsAtError(_, _, _, _, _, _)
\* the loop of run_grid_cycle without its try/except: the first exception
\* ends the cycle
CycleLoop_StopsAtError(w, p, t, syms, inps, i) ==
    IF i > Len(syms) THEN w
    ELSE IF inps[syms[i]].raises = "before"
    THEN [w EXCEPT !.errors = Append(@, syms[i])]
    ELSE
        LET w1 == manage_symbol_grid(w, p, t, syms[i], inps[syms[i]])
        IN  IF inps[syms[i]].raises = "after"
            THEN [w1 EXCEPT !.r = w.r, !.errors = Append(@, syms[i])]
            ELSE CycleLoop_StopsAtError([w1 EXCEPT !.r = DictSet(w.r, syms[i], @)],
                                        p, t, syms, inps, i + 1)

RECURSIVE CycleLoop(_, _, _, _, _, _)
\* the loop of run_grid_cycle over the symbols syms[i..]: w.r collects
\* results["symbols"], w.errors the symbols of results["errors"]
CycleLoop(w, p, t, syms, inps, i) ==
    IF i > Len(syms) THEN w
    ELSE IF inps[syms[i]].raises = "before"
    THEN CycleLoop([w EXCEPT !.errors = Append(@, syms[i])], p, t, syms, inps, i + 1)
    ELSE
        LET w1 == manage_symbol_grid(w, p, t, syms[i], inps[syms[i]])
        IN  IF inps[syms[i]].raises = "after"
            THEN CycleLoop([w1 EXCEPT !.r = w.r, !.errors = Append(@, syms[i])],
                           p, t, syms, inps, i + 1)
            ELSE CycleLoop([w1 EXCEPT !.r = DictSet(w.r, syms[i], @)],
                           p, t, syms, inps, i + 1)

\* GridTradingStrategy.run_grid_cycle: w.r is results["symbols"], w.errors the
\* symbols of results["errors"]
run_grid_cycle(w, p, t, syms, inps) ==
    CycleLoop([w EXCEPT !.r = EmptyDict], p, t, syms, inps, 1)

----------------------------------------------------------------------------
(* The state machine *)

Range(f) == {f[x] : x \in DOMAIN f}

\* the deepest rung of any grid of the model
MaxLevels == CHOOSE n \in LevelCounts \cup {grid_levels} :
                \A m \in LevelCounts \cup {grid_levels} : m <= n

\* the single failures of the kinds in K that can happen with the orders os
Failures(K, os) ==
    {f \in ({"place"} \X (-MaxLevels..0))
           \cup ({"query"} \X (1..(Len(os) + 2)))
           \cup ({"cancel"} \X (1..Len(os)))
           \cup ({"open", "pos", "close"} \X {0})
           \cup ({"save"} \X {1, 2}) : f[1] \in K}

AddFailure(p, f) ==
    CASE f[1] = "place"  -> [p EXCEPT !.place = @ \cup {f[2]}]
      [] f[1] = "query"  -> [p EXCEPT !.query = @ \cup {f[2]}]
      [] f[1] = "cancel" -> [p EXCEPT !.cancel = @ \cup {f[2]}]
      [] f[1] = "open"   -> [p EXCEPT !.open = TRUE]
      [] f[1] = "pos"    -> [p EXCEPT !.pos = TRUE]
      [] f[1] = "close"  -> [p EXCEPT !.close = TRUE]
      [] f[1] = "save"   -> [p EXCEPT !.save = IF f[2] = 1 THEN "keep" ELSE "corrupt"]

RECURSIVE PlansOf(_, _)
\* the plans of at most n failures out of F
PlansOf(F, n) ==
    IF n <= 0 THEN {NoPlan}
    ELSE LET P == PlansOf(F, n - 1) IN P \cup {AddFailure(p, f) : p \in P, f \in F}

\* the plans an operation that makes the calls of the kinds K can meet now
Plans(K) == PlansOf(Failures(K, orders), MaxFaults - faults)

W0 == World(grids, store, orders, position)

\* what is recorded of a step: the operation or event op, what it returned,
\* called and logged, and (prev) whether the same operation ran just before
Last(op, symbol, args, w) ==
    [op |-> op, symbol |-> symbol, args |-> args, ret |-> w.r, saved |-> w.saved,
     calls |-> w.calls, ops |-> w.ops, fills |-> w.fills, ends |-> w.ends,
     errors |-> w.errors, nf |-> w.nf, prev |-> <<>>]

\* the operations whose repetition is recorded
Repeatable == {"place_grid_orders", "check_and_update_orders", "run_grid_cycle"}

\* the history of a step of a repeatable operation: <<op, symbol>> when the
\* step before it was the same operation on the same symbol with no failed
\* call, <<op, symbol, "restart">> when a restart lies between the two; a
\* restart remembers the repeatable operation that completed just before it
\* without a failed call and with its state written to the store
After(l) ==
    [l EXCEPT !.prev =
        IF l.op = "restart"
        THEN IF last.nf = 0 /\ last.saved = "ok" /\ last.op \in Repeatable
             THEN <<last.op, last.symbol>> ELSE <<>>
        ELSE IF l.op \notin Repeatable THEN <<>>
        ELSE IF last.op = l.op /\ last.symbol = l.symbol /\ last.nf = 0
        THEN <<l.op, l.symbol>>
        ELSE IF last.op = "restart" /\ last.prev = <<l.op, l.symbol>>
        THEN <<l.op, l.symbol, "restart">>
        ELSE <<>>]

\* an operation of the manager or the strategy ran and left the world w
Ran(op, symbol, args, w, cap) ==
    /\ w.nf <= MaxFaults - faults
    /\ Len(w.orders) <= cap
    /\ grids' = w.grids
    /\ store' = w.store
    /\ orders' = w.orders
    /\ position' = w.position
    /\ faults' = faults + w.nf
    /\ last' = After(Last(op, symbol, args, w))
    /\ now' = IF now < MaxTime THEN now + 1 ELSE now
    /\ UNCHANGED grid_symbols

\* an event outside the manager
Event(op, symbol, args) ==
    last' = After(Last(op, symbol, args, World(EmptyDict, NoFile, <<>>, <<>>)))

Init ==
    /\ grid_symbols = <<"BTC/USD">>
    /\ grids = load_state(NoFile, 0)
    /\ store = NoFile
    /\ orders = <<>>
    /\ position = [s \in AllSymbols |-> 0]
    /\ now = 0
    /\ faults = 0
    /\ last = Last("init", "", <<>>, World(EmptyDict, NoFile, <<>>, <<>>))

InitializeGrid ==
    \E s \in Range(grid_symbols), c \in Centers, sp \in Spacings,
       n \in LevelCounts, q \in Qtys, p \in Plans({"save"}) :
        \E w \in {initialize_grid(W0, p, now, s, c, sp, n, q)} :
            Ran("initialize_grid", s, <<c, sp, n, q>>, w, MaxOrders)

PlaceGridOrders ==
    \E s \in Range(grid_symbols), p \in Plans({"place", "save"}) :
        \E w \in {place_grid_orders(W0, p, now, s)} :
            Ran("place_grid_orders", s, <<>>, w, MaxOrders)

CheckAndUpdateOrders ==
    \E s \in Range(grid_symbols), p \in Plans({"open", "query", "place", "save"}) :
        \E w \in {check_and_update_orders(W0, p, now, s)} :
            Ran("check_and_update_orders", s, <<>>, w, MaxOrders)

CancelAllOrders ==
    \E s \in Range(grid_symbols), p \in Plans({"cancel", "save"}) :
        \E w \in {cancel_all_orders(W0, p, now, s)} :
            Ran("cancel_all_orders", s, <<>>, w, MaxOrders)

StopGrid ==
    \E s \in Range(grid_symbols), p \in Plans({"cancel", "pos", "close", "save"}) :
        \E w \in {stop_grid(W0, p, now, s)} :
            Ran("stop_grid", s, <<>>, w, MaxOrders)

RecenterGrid ==
    \E s \in Range(grid_symbols), c \in NewCenters, sp \in Spacings,
       n \in NewLevelCounts, p \in Plans({"cancel", "place", "save"}) :
        \E w \in {recenter_grid(W0, p, now, s, c, sp, n)} :
            Ran("recenter_grid", s, <<c, sp, n>>, w, MaxOrders)

CycleFailures == {"place", "cancel"}

CycleInputs ==
    [price : {None} \cup {Some(x) : x \in CyclePrices},
     center : {None} \cup {Some(x) : x \in CycleCenters},
     pv : {None} \cup {Some(x) : x \in PortfolioValues},
     raises : {"no"}]

RunGridCycle ==
    \E inps \in [Range(grid_symbols) -> CycleInputs],
       p \in Plans(CycleFailures) :
        \E w \in {run_grid_cycle(W0, p, now, grid_symbols, inps)} :
            Ran("run_grid_cycle", "", [s \in DOMAIN inps |-> inps[s].price], w,
                MaxCycleOrders)

\* the broker fills an open order completely, at its limit price or better
BrokerFill ==
    \E id \in 1..Len(orders), d \in PriceImprovements :
        LET o == orders[id]
            px == IF o.side = "buy" THEN o.limit_price - d ELSE o.limit_price + d
        IN  /\ o.status = "new"
            /\ orders' = [orders EXCEPT ![id].status = "filled",
                                        ![id].filled_qty = o.qty,
                                        ![id].filled_avg_price = Some(px)]
            /\ position' = [position EXCEPT ![o.symbol] =
                                IF o.side = "buy" THEN @ + o.qty ELSE @ - o.qty]
            /\ Event("fill", o.symbol, <<id>>)
            /\ UNCHANGED <<grid_symbols, grids, store, now, faults>>

\* an open order ends at the broker without a fill
BrokerEnd ==
    \E id \in 1..Len(orders), st \in {"canceled", "expired"} :
        /\ orders[id].status = "new"
        /\ orders' = [orders EXCEPT ![id].status = st]
        /\ Event("end", orders[id].symbol, <<id>>)
        /\ UNCHANGED <<grid_symbols, grids, store, position, now, faults>>

\* the process restarts: GridOrderManager.__init__ loads the state file
Restart ==
    /\ grids' = load_state(store, now)
    /\ Event("restart", "", <<>>)
    /\ UNCHANGED <<grid_symbols, store, orders, position, now, faults>>

Next ==
    \/ InitializeGrid
    \/ PlaceGridOrders
    \/ CheckAndUpdateOrders
    \/ CancelAllOrders
    \/ StopGrid
    \/ RecenterGrid
    \/ BrokerFill
    \/ BrokerEnd
    \/ Restart

Spec == Init /\ [][Next]_vars

NextCycle ==
    \/ RunGridCycle
    \/ BrokerFill
    \/ BrokerEnd

SpecCycle == Init /\ [][NextCycle]_vars

----------------------------------------------------------------------------
(* The strategy with two configured symbols.  What the first symbol meets   *)
(* in a cycle is one of: no price; a price at the center, with and without   *)
(* money in the account; a price beyond the boundary; a price that asks for  *)
(* a recenter, with and without a new center; an exception that escapes      *)
(* before or after the manager was called.  The second symbol meets no       *)
(* price, a price at the center, or an exception.  The 24h average, when     *)
(* there is one, is the first center, so every grid is centered there.       *)

PairSymbols == <<"BTC/USD", "ETH/USD">>

PairFailures == {"place", "cancel", "save"}

FirstInputs ==
    {[price |-> None, center |-> None, pv |-> None, raises |-> "no"],
     [price |-> Some(10000), center |-> None, pv |-> Some(10), raises |-> "no"],
     [price |-> Some(10000), center |-> None, pv |-> Some(0), raises |-> "no"],
     [price |-> Some(11200), center |-> Some(10000), pv |-> Some(10), raises |-> "no"],
     [price |-> Some(10600), center |-> Some(10000), pv |-> Some(10), raises |-> "no"],
     [price |-> Some(10600), center |-> None, pv |-> Some(0), raises |-> "no"],
     [price |-> Some(10000), center |-> None, pv |-> Some(10), raises |-> "before"],
     [price |-> Some(10000), center |-> None, pv |-> Some(10), raises |-> "after"]}

SecondInputs ==
    {[price |-> None, center |-> None, pv |-> None, raises |-> "no"]}
    \cup [price : {Some(10000)}, center : {None},
          pv : {Some(10)}, raises : {"no", "before"}]

PairInputs ==
    {inps \in [Range(PairSymbols) -> FirstInputs] :
        inps[PairSymbols[2]] \in SecondInputs}

InitPair ==
    /\ grid_symbols = PairSymbols
    /\ grids = load_state(NoFile, 0)
    /\ store = NoFile
    /\ orders = <<>>
    /\ position = [s \in AllSymbols |-> 0]
    /\ now = 0
    /\ faults = 0
    /\ last = Last("init", "", <<>>, World(EmptyDict, NoFile, <<>>, <<>>))

\* run_grid_cycle over both symbols; the step records the inputs of each
RunPairCycle ==
    \E inps \in PairInputs, p \in Plans(PairFailures) :
        \E w \in {run_grid_cycle(W0, p, now, grid_symbols, inps)} :
            Ran("run_grid_cycle", "", inps, w, MaxCycleOrders)

NextPair ==
    \/ RunPairCycle
    \/ BrokerFill

SpecPair == InitPair /\ [][NextPair]_vars

----------------------------------------------------------------------------
(* The manager holding the grids of two symbols, and its status query.      *)

GetGridStatus ==
    \E s \in Range(grid_symbols) :
        \E w \in {get_grid_status(W0, s)} :
            Ran("get_grid_status", s, <<>>, w, MaxOrders)

NextTwoGrids ==
    \/ InitializeGrid
    \/ PlaceGridOrders
    \/ CheckAndUpdateOrders
    \/ StopGrid
    \/ GetGridStatus
    \/ BrokerFill

SpecTwoGrids == InitPair /\ [][NextTwoGrids]_vars

----------------------------------------------------------------------------
(* The process killed inside an operation.  place_grid_orders and            *)
(* check_and_update_orders write the state file once, after their loop: a    *)
(* process killed when the loop has ended and save_state has not run leaves  *)
(* the broker with the orders of the loop and the file as it was; the next   *)
(* process starts from the file.                                             *)

Unsaved == [NoPlan EXCEPT !.save = "keep"]

\* the process dies in the operation op on s that would have left the world w,
\* and is started again
Killed(op, s, w) ==
    /\ Len(w.orders) <= MaxOrders
    /\ orders' = w.orders
    /\ position' = w.position
    /\ grids' = load_state(store, now)
    /\ last' = After([Last("kill", s, <<op, Len(orders)>>, w) EXCEPT
                         !.ret = None, !.saved = "none", !.nf = 0])
    /\ UNCHANGED <<grid_symbols, store, now, faults>>

KillPlaceGridOrders ==
    \E s \in Range(grid_symbols) :
        \E w \in {place_grid_orders(W0, Unsaved, now, s)} :
            Killed("place_grid_orders", s, w)

KillCheckAndUpdateOrders ==
    \E s \in Range(grid_symbols) :
        \E w \in {check_and_update_orders(W0, Unsaved, now, s)} :
            Killed("check_and_update_orders", s, w)

NextCrash ==
    \/ InitializeGrid
    \/ PlaceGridOrders
    \/ CheckAndUpdateOrders
    \/ BrokerFill
    \/ KillPlaceGridOrders
    \/ KillCheckAndUpdateOrders

SpecCrash == Init /\ [][NextCrash]_vars

----------------------------------------------------------------------------
(* initialize_grid on its own, over a wider range of arguments.  No center   *)
(* in InitCenters puts a level price on an exact half cent.                 *)

InitCenters == {10000, 10001, 12345}
InitSpacings == {1, 2, 3}
InitLevelCounts == {1, 2, 3}

InitializeAnyGrid ==
    \E s \in Range(grid_symbols), c \in InitCenters, sp \in InitSpacings,
       n \in InitLevelCounts, q \in Qtys, p \in Plans({"save"}) :
        \E w \in {initialize_grid(W0, p, now, s, c, sp, n, q)} :
            Ran("initialize_grid", s, <<c, sp, n, q>>, w, MaxOrders)

NextInitialize == InitializeAnyGrid

SpecInitialize == Init /\ [][NextInitialize]_vars

----------------------------------------------------------------------------
(* Grids of any spacing: initialize_grid is called with a spacing out of     *)
(* AnySpacings, then orders are placed, filled and reconciled.               *)

AnySpacings == {1, 2, 3}

InitializeSpacedGrid ==
    \E s \in Range(grid_symbols), c \in Centers, sp \in AnySpacings,
       n \in LevelCounts, q \in Qtys, p \in Plans({"save"}) :
        \E w \in {initialize_grid(W0, p, now, s, c, sp, n, q)} :
            Ran("initialize_grid", s, <<c, sp, n, q>>, w, MaxOrders)

NextSpacing ==
    \/ InitializeSpacedGrid
    \/ PlaceGridOrders
    \/ CheckAndUpdateOrders
    \/ BrokerFill

SpecSpacing == Init /\ [][NextSpacing]_vars

----------------------------------------------------------------------------
(* Serialization on its own: a GridState of any shape is written with        *)
(* to_dict and read back with from_dict.                                    *)

RoundTripLevels ==
    {GridLevel(n, 9800, ot, oid, st, fq, fp) :
        n \in {-1, 1}, ot \in {"buy", "sell"}, oid \in {None, Some(1)},
        st \in {"pending", "open", "filled", "cancelled"},
        fq \in {0, 10}, fp \in {None, Some(9790)}}

RoundTripSecondLevels ==
    {GridLevel(-2, 9600, "buy", Some(2), "filled", 10, Some(9600)),
     GridLevel(-2, 9600, "buy", Some(2), "open", 0, None),
     GridLevel(2, 10400, "sell", None, "cancelled", 0, None)}

RoundTripStates ==
    {GridState("BTC/USD", 10000, 10, ls, m[1], m[2], st, Some(lu), 0) :
        ls \in {<<>>} \cup {<<l>> : l \in RoundTripLevels}
                 \cup {<<l, k>> : l \in RoundTripLevels, k \in RoundTripSecondLevels},
        m \in {<<0, 0>>, <<98000, -2000>>},
        st \in {"active", "stopped", "paused"},
        lu \in {0, 1}}

InitRoundTrip ==
    /\ grid_symbols = <<"BTC/USD">>
    /\ grids \in {DictSet(EmptyDict, g.symbol, g) : g \in RoundTripStates}
    /\ store = NoFile
    /\ orders = <<>>
    /\ position = [s \in AllSymbols |-> 0]
    /\ now = MaxTime + 1
    /\ faults = 0
    /\ last = Last("init", "", <<>>, World(EmptyDict, NoFile, <<>>, <<>>))

\* GridState.to_dict of every grid
ToDict ==
    /\ store' = JsonFile([s \in DOMAIN grids |-> GridState_to_dict(grids[s])])
    /\ last' = Last("to_dict", "", <<grids>>, World(EmptyDict, NoFile, <<>>, <<>>))
    /\ UNCHANGED <<grid_symbols, grids, orders, position, now, faults>>

\* GridState.from_dict of every dict written
FromDict ==
    /\ store.kind = "json"
    /\ grids' = [s \in DOMAIN store.doc |-> GridState_from_dict(store.doc[s], now)]
    /\ last' = Last("from_dict", "", <<grids>>, World(EmptyDict, NoFile, <<>>, <<>>))
    /\ UNCHANGED <<grid_symbols, store, orders, position, now, faults>>

NextRoundTrip ==
    \/ ToDict
    \/ FromDict

SpecRoundTrip == InitRoundTrip /\ [][NextRoundTrip]_vars

----------------------------------------------------------------------------
(* Claims *)

\* the broker orders still open that the manager submitted for rung n of symbol s
OpenOrdersFor(s, n) ==
    {id \in 1..Len(orders) :
        /\ orders[id].symbol = s
        /\ orders[id].rung = n
        /\ orders[id].status = "new"}

\* C1: in every reachable state, for every symbol and every level index, at most
\* one order that is still open at the broker was submitted by the manager for
\* that level.
C1_OneOpenOrderPerLevel ==
    \A s \in AllSymbols : \A n \in -MaxLevels..MaxLevels :
        Cardinality(OpenOrdersFor(s, n)) <= 1

\* C1 without any failed call: the same statement in the behaviours in which
\* every broker call and every store write succeeds.
C1_OneOpenOrderPerLevel_NoFailure ==
    faults = 0 => C1_OneOpenOrderPerLevel

\* what the broker paid or received for a filled order
Amount(o) == o.filled_avg_price[1] * o.filled_qty

\* the fills the last step detected whose level has the side of the order
Fills ==
    {k \in 1..Len(last.fills) :
        last.fills[k].order_type = last.fills[k].order.side}

\* C2: for every fill that check_and_update_orders detects, total_invested grows
\* by filled_price * filled_qty of the order when a buy filled, and shrinks by
\* filled_price * filled_qty of the paired buy (the buy whose fill the sell
\* answered) when a sell filled, so that a buy fill followed by the fill of
\* its paired sell leaves total_invested where it was.
C2_TotalInvestedPaired ==
    \A k \in Fills :
        LET f == last.fills[k] IN
        /\ f.order.side = "buy" =>
                f.after.total_invested = f.before.total_invested + Amount(f.order)
        /\ f.order.side = "sell" =>
                f.after.total_invested =
                    f.before.total_invested - Amount(orders[f.order.pair])

\* C2 without any failed call: the same statement in the behaviours in which
\* every broker call and every store write succeeds.
C2_TotalInvestedPaired_NoFailure ==
    faults = 0 => C2_TotalInvestedPaired

\* the place_limit_order calls made while the fill f was handled
PlaceCalls(f) == SelectSeq(f.calls, LAMBDA c : c.call = "place_limit_order")

\* the broker accepted the order placed in answer to the fill f
Accepted(f) == \E j \in 1..Len(f.calls) :
                    f.calls[j].call = "place_limit_order" /\ f.calls[j].ok

\* the fills of buy orders on buy levels, of sell orders on sell levels, that
\* the last step detected and answered with an order the broker accepted
AnsweredFills(side) ==
    {k \in Fills : last.fills[k].order.side = side /\ Accepted(last.fills[k])}

\* C3: when check_and_update_orders finds the open buy order of level L filled
\* and the broker accepts the new order, then right after that fill is handled
\* level L is filled with the broker's filled_qty and filled_price, exactly one
\* order was submitted, a sell for the filled quantity at rung L + 1, level
\* L + 1 exists (updated in place if it existed, appended otherwise) with status
\* open and the id of that sell order, and buys_filled and orders_placed are
\* each one higher.
C3_BuyFillPlacesSell ==
    \A k \in AnsweredFills("buy") :
        LET f == last.fills[k]
            L == f.level
            new == f.norders + 1
            was == LevelIndex(f.before.levels, L + 1)
            is == LevelIndex(f.after.levels, L + 1)
        IN  /\ f.after.levels[f.index].level = L
            /\ f.after.levels[f.index].status = "filled"
            /\ f.after.levels[f.index].filled_qty = f.order.filled_qty
            /\ f.after.levels[f.index].filled_price = f.order.filled_avg_price
            /\ Len(PlaceCalls(f)) = 1
            /\ PlaceCalls(f)[1].side = "sell"
            /\ PlaceCalls(f)[1].qty = f.order.filled_qty
            /\ PlaceCalls(f)[1].arg = L + 1
            /\ new \in 1..Len(orders)
            /\ orders[new].side = "sell"
            /\ orders[new].qty = f.order.filled_qty
            /\ orders[new].rung = L + 1
            /\ is # 0
            /\ f.after.levels[is].status = "open"
            /\ f.after.levels[is].order_id = Some(new)
            /\ was # 0 => is = was /\ Len(f.after.levels) = Len(f.before.levels)
            /\ was = 0 => is = Len(f.after.levels)
                            /\ Len(f.after.levels) = Len(f.before.levels) + 1
            /\ f.res_after = [f.res_before EXCEPT !.buys_filled = @ + 1,
                                                  !.orders_placed = @ + 1]

\* a buy fill was answered with a sell on a level that had to be appended
C3_Witness ==
    /\ last.op = "check_and_update_orders"
    /\ \E k \in AnsweredFills("buy") :
            LevelIndex(last.fills[k].before.levels, last.fills[k].level + 1) = 0

AllAccepted(calls) ==
    \A j \in 1..Len(calls) : calls[j].call = "place_limit_order" => calls[j].ok

\* C5: place_grid_orders submits orders only for levels that were pending when
\* it was called; and when it runs directly after a place_grid_orders for the
\* same symbol whose placements were all accepted (so with no fill in between),
\* it submits no order and returns 0.
C5_PlaceTwice ==
    [][last'.op = "place_grid_orders" =>
        /\ \A j \in 1..Len(last'.calls) :
                LET i == LevelIndex(grids[last'.symbol].levels, last'.calls[j].arg)
                IN  /\ last'.calls[j].call = "place_limit_order"
                    /\ i # 0
                    /\ grids[last'.symbol].levels[i].status = "pending"
        /\ (/\ last.op = "place_grid_orders"
            /\ last.symbol = last'.symbol
            /\ AllAccepted(last.calls))
            => /\ last'.calls = <<>>
               /\ orders' = orders
               /\ last'.ret = 0
    ]_vars

\* place_grid_orders ran twice in a row on an active grid with open orders: the
\* first call's placements were all accepted, the second submitted nothing
C5_Witness ==
    /\ last.op = "place_grid_orders"
    /\ last.prev = <<"place_grid_orders", last.symbol>>
    /\ faults = 0
    /\ last.calls = <<>>
    /\ last.ret = 0
    /\ Active([grids |-> grids], last.symbol)
    /\ Len(get_open_orders(grids[last.symbol])) > 0

\* the step is a check_and_update_orders that finds nothing to do: it reports
\* no fill and no order, submits nothing, and leaves every level and both
\* totals of the grid as they were
NothingToReconcile ==
    /\ last'.ret = Results(0, 0, 0)
    /\ \A j \in 1..Len(last'.calls) : last'.calls[j].call # "place_limit_order"
    /\ orders' = orders
    /\ last'.symbol \in DOMAIN grids =>
            /\ last'.symbol \in DOMAIN grids'
            /\ grids'[last'.symbol].levels = grids[last'.symbol].levels
            /\ grids'[last'.symbol].total_invested = grids[last'.symbol].total_invested
            /\ grids'[last'.symbol].realized_profit = grids[last'.symbol].realized_profit

\* C6 as stated: check_and_update_orders finds nothing to do when it runs
\* directly after a restart that directly followed a completed operation (so
\* with the broker's open orders as that operation left them), and when it
\* runs directly after another check_and_update_orders for the same symbol.
C6_AfterAnyOperation ==
    [][(/\ last'.op = "check_and_update_orders"
        /\ \/ last.op = "restart" /\ last.prev # <<>>
           \/ last.op = "check_and_update_orders" /\ last.symbol = last'.symbol)
       => NothingToReconcile]_vars

\* C6 amended: check_and_update_orders finds nothing to do when it runs
\* directly after a check_and_update_orders for the same symbol none of whose
\* broker calls and store writes failed, and when it runs directly after a
\* restart that directly followed such a check_and_update_orders which wrote
\* the store.
C6_AfterCompletedCheck ==
    [][(/\ last'.op = "check_and_update_orders"
        /\ \/ /\ last.op = "restart"
              /\ last.prev = <<"check_and_update_orders", last'.symbol>>
           \/ /\ last.op = "check_and_update_orders"
              /\ last.symbol = last'.symbol
              /\ last.nf = 0)
       => NothingToReconcile]_vars

\* check_and_update_orders ran again after a restart, on a grid that holds a
\* fill booked before the restart and an order still open at the broker
C6_Witness ==
    /\ last.op = "check_and_update_orders"
    /\ last.prev = <<"check_and_update_orders", last.symbol, "restart">>
    /\ last.ret = Results(0, 0, 0)
    /\ Active([grids |-> grids], last.symbol)
    /\ Len(get_filled_buys(grids[last.symbol])) > 0
    /\ \E i \in 1..Len(grids[last.symbol].levels) :
            LET l == grids[last.symbol].levels[i] IN
            l.status = "open" /\ orders[l.order_id[1]].status = "new"

MutatingOperations ==
    {"initialize_grid", "place_grid_orders", "check_and_update_orders",
     "cancel_all_orders", "stop_grid", "recenter_grid"}

\* C7: whenever a mutating operation of the manager has returned and its write
\* of the store succeeded, what a new manager loads from the store is exactly
\* the symbol -> GridState mapping the manager holds in memory.
C7_PersistedEqualsMemory ==
    (last.op \in MutatingOperations /\ last.saved = "ok")
        => load_state(store, now) = grids

\* check_and_update_orders has just booked a fill and placed an order, and has
\* written the store
C7_Witness ==
    /\ last.op = "check_and_update_orders"
    /\ last.saved = "ok"
    /\ AnsweredFills("buy") # {}
    /\ store.kind = "json"
    /\ grids # EmptyDict

\* C8: for every GridState g, whatever the statuses of its levels and with or
\* without order_id, filled_qty and filled_price on them, from_dict(to_dict(g))
\* equals g: every field of the grid and every field of every level, the
\* levels in the same order.
C8_RoundTrip ==
    last.op = "from_dict" =>
        /\ DOMAIN grids = DOMAIN last.args[1]
        /\ \A s \in DOMAIN grids : grids[s] = last.args[1][s]

\* a grid with a filled level carrying its fill and a cancelled level without
\* an order_id has been written and read back
C8_Witness ==
    /\ last.op = "from_dict"
    /\ \E s \in DOMAIN grids :
            /\ \E i \in 1..Len(grids[s].levels) :
                    /\ grids[s].levels[i].status = "filled"
                    /\ grids[s].levels[i].filled_qty > 0
                    /\ grids[s].levels[i].filled_price # None
            /\ \E i \in 1..Len(grids[s].levels) :
                    /\ grids[s].levels[i].status = "cancelled"
                    /\ grids[s].levels[i].order_id = None

\* the price is strictly outside the boundary around the center
Beyond(price, center_price) ==
    \/ price * 100 > center_price * (100 + grid_boundary_stop_pct)
    \/ price * 100 < center_price * (100 - grid_boundary_stop_pct)

\* C9: when run_grid_cycle manages a symbol whose grid is active and whose
\* current price is strictly beyond the boundary, it calls stop_grid for the
\* symbol and no other operation of the manager, and afterwards the grid is
\* stopped, none of its levels is open and no order of the symbol is open at
\* the broker.
C9_BoundaryStop ==
    [][last'.op = "run_grid_cycle" =>
        \A s \in Range(grid_symbols) :
            (/\ Active([grids |-> grids], s)
             /\ Truthy(last'.args[s])
             /\ Beyond(last'.args[s][1], grids[s].center_price))
            => /\ SelectSeq(last'.ops, LAMBDA o : o[2] = s) = <<(<<"stop_grid", s>>)>>
               /\ grids'[s].status = "stopped"
               /\ get_open_orders(grids'[s]) = <<>>
               /\ OpenOrderIds(orders', s) = {}
    ]_vars

\* the levels of the grid g numbered n
LevelsNumbered(g, n) == {i \in 1..Len(g.levels) : g.levels[i].level = n}

\* the price (in cents) is exactly hundredths / 100
ExactPrice(price, hundredths) == price * 100 = hundredths

\* the price (in cents) is hundredths / 100 rounded to the nearest cent
NearestCent(price, hundredths) == 2 * Abs(price * 100 - hundredths) <= 100

\* the grid initialize_grid(symbol, center, spacing_pct, n, qty) has just built
\* is active and has exactly 2n levels, for each i in 1..n one buy level
\* numbered -i and one sell level numbered i, all pending without order_id,
\* the buy level -i priced center * (100 - spacing_pct * i) / 100 and the sell
\* level i priced center * (100 + spacing_pct * i) / 100, exactly or to the
\* nearest cent
InitializedAs(exact) ==
    last.op = "initialize_grid" =>
        LET g == grids[last.symbol]
            center == last.args[1]
            spacing_pct == last.args[2]
            n == last.args[3]
            Priced(price, hundredths) ==
                IF exact THEN ExactPrice(price, hundredths)
                ELSE NearestCent(price, hundredths)
        IN  /\ g.status = "active"
            /\ Len(g.levels) = 2 * n
            /\ \A i \in 1..Len(g.levels) :
                    /\ g.levels[i].status = "pending"
                    /\ g.levels[i].order_id = None
            /\ \A i \in 1..n :
                    /\ \E k \in LevelsNumbered(g, -i) :
                            /\ LevelsNumbered(g, -i) = {k}
                            /\ g.levels[k].order_type = "buy"
                            /\ Priced(g.levels[k].price, center * (100 - spacing_pct * i))
                    /\ \E k \in LevelsNumbered(g, i) :
                            /\ LevelsNumbered(g, i) = {k}
                            /\ g.levels[k].order_type = "sell"
                            /\ Priced(g.levels[k].price, center * (100 + spacing_pct * i))

\* C10 as stated: the grid initialize_grid builds is active with 2n pending
\* levels without order_id, the buy level -i priced exactly
\* center * (1 - spacing_pct/100 * i) and the sell level i priced exactly
\* center * (1 + spacing_pct/100 * i).
C10_ExactPrices == InitializedAs(TRUE)

\* C10 amended: the same, with each price being that product rounded to two
\* decimals (the nearest cent).
C10_RoundedPrices == InitializedAs(FALSE)

\* a grid was initialized around a center for which the products are not whole
\* cents
C10_Witness ==
    /\ last.op = "initialize_grid"
    /\ last.args[3] = 3
    /\ \E i \in 1..Len(grids[last.symbol].levels) :
            LET l == grids[last.symbol].levels[i] IN
            l.price * 100 # last.args[1] * (100 + last.args[2] * l.level)

\* the fills the step recorded in l detected and tried to answer with an order
\* that the broker refused
RefusedFills(l) ==
    {k \in 1..Len(l.fills) :
        PlaceCalls(l.fills[k]) # <<>> /\ ~Accepted(l.fills[k])}

\* C11, the case of the replacement order: when check_and_update_orders
\* detects a fill and the placement of the replacement sell or rebuy fails,
\* the level keeps the status it had before (open), and the next
\* check_and_update_orders for the symbol submits the replacement again.
C11_FailedReplacementRetried ==
    [][/\ last'.op = "check_and_update_orders" =>
            \A k \in RefusedFills(last') :
                LET f == last'.fills[k] IN
                f.after.levels[f.index].status = f.before.levels[f.index].status
       /\ (/\ last.op = "check_and_update_orders"
           /\ RefusedFills(last) # {}
           /\ last'.op = "check_and_update_orders"
           /\ last'.symbol = last.symbol)
           => \E j \in 1..Len(last'.calls) :
                    last'.calls[j].call = "place_limit_order"
    ]_vars

\* the levels of the grid g that check_and_update_orders has to look at: open,
\* with an order that is no longer open among the broker's orders os
Eligible(g, os) ==
    {i \in 1..Len(g.levels) :
        /\ g.levels[i].status = "open"
        /\ Truthy(g.levels[i].order_id)
        /\ os[g.levels[i].order_id[1]].status # "new"}

\* the pending buy levels of the grid g
PendingBuys(g) ==
    {i \in 1..Len(g.levels) :
        g.levels[i].status = "pending" /\ g.levels[i].order_type = "buy"}

\* the calls of the broker operation name with argument arg in the step l
CallsOf(l, name, arg) ==
    {j \in 1..Len(l.calls) : l.calls[j].call = name /\ l.calls[j].arg = arg}

\* the broker calls of the step l that failed
FailedCalls(l) == {j \in 1..Len(l.calls) : ~l.calls[j].ok}

\* the number of place_limit_order calls of the step l the broker accepted
AcceptedCount(l) ==
    Cardinality({j \in 1..Len(l.calls) :
                    l.calls[j].call = "place_limit_order" /\ l.calls[j].ok})

\* C12: a failing broker call does not end the loop of check_and_update_orders
\* or place_grid_orders.  Whatever calls fail, check_and_update_orders on an
\* active grid queries every open level whose order is no longer open at the
\* broker, books every such level whose query succeeded (a filled order as a
\* fill, a cancelled or expired one as cancelled), returns its three counts and
\* calls save_state; place_grid_orders on an active grid submits an order for
\* every pending buy level, opens each one the broker accepted, returns the
\* number accepted and calls save_state.
C12_FailureDoesNotAbort ==
    [][/\ (last'.op = "check_and_update_orders"
            /\ Active([grids |-> grids], last'.symbol)) =>
            LET g == grids[last'.symbol] IN
            /\ \A i \in Eligible(g, orders) :
                    LET id == g.levels[i].order_id[1] IN
                    /\ Cardinality(CallsOf(last', "get_order", id)) = 1
                    /\ (\A j \in CallsOf(last', "get_order", id) : last'.calls[j].ok)
                        => /\ orders[id].status = "filled" =>
                                \E k \in 1..Len(last'.fills) :
                                    /\ last'.fills[k].index = i
                                    /\ last'.fills[k].order_id = id
                           /\ orders[id].status \in {"canceled", "expired"} =>
                                \E k \in 1..Len(last'.ends) :
                                    /\ last'.ends[k].index = i
                                    /\ last'.ends[k].order_id = id
            /\ last'.ret = Results(
                    Cardinality({k \in 1..Len(last'.fills) :
                                    last'.fills[k].order_type = "buy"}),
                    Cardinality({k \in 1..Len(last'.fills) :
                                    last'.fills[k].order_type = "sell"}),
                    AcceptedCount(last'))
            /\ last'.saved \in {"ok", "failed"}
            /\ last'.saved = "ok" => load_state(store', now') = grids'
       /\ (last'.op = "place_grid_orders"
            /\ Active([grids |-> grids], last'.symbol)) =>
            LET g == grids[last'.symbol] IN
            /\ \A i \in PendingBuys(g) :
                    /\ Cardinality(CallsOf(last', "place_limit_order",
                                           g.levels[i].level)) = 1
                    /\ \A j \in CallsOf(last', "place_limit_order", g.levels[i].level) :
                            last'.calls[j].ok =>
                                grids'[last'.symbol].levels[i].status = "open"
            /\ last'.ret = AcceptedCount(last')
            /\ last'.saved \in {"ok", "failed"}
            /\ last'.saved = "ok" => load_state(store', now') = grids'
    ]_vars

\* check_and_update_orders met a failed broker call for one level and, in the
\* same call, booked and answered the fill of another level
C12_Witness ==
    /\ last.op = "check_and_update_orders"
    /\ \E j \in FailedCalls(last) :
            /\ last.calls[j].call = "get_order"
            /\ \E k \in AnsweredFills("buy") :
                    /\ last.fills[k].order_id # last.calls[j].arg
                    /\ last.fills[k].index > 1
    /\ last.saved = "ok"

\* C13: in place_grid_orders on an active grid, each pending buy level whose
\* placement the broker accepts becomes open with the id of the new order (a
\* buy for qty_per_level at the level's price), each pending buy level whose
\* placement fails stays as it was, pending without order_id, and no other
\* level changes; the count returned is the number of levels that went from
\* pending to open; and a placement that failed is submitted again by a
\* place_grid_orders that follows directly.
C13_PlacementOutcome ==
    [][(last'.op = "place_grid_orders"
            /\ Active([grids |-> grids], last'.symbol)) =>
        LET s == last'.symbol
            g == grids[s]
            h == grids'[s]
        IN  /\ Len(h.levels) = Len(g.levels)
            /\ \A i \in PendingBuys(g) :
                    CallsOf(last', "place_limit_order", g.levels[i].level) # {}
            /\ \A i \in PendingBuys(g) :
                    \A j \in CallsOf(last', "place_limit_order", g.levels[i].level) :
                        IF last'.calls[j].ok
                        THEN /\ h.levels[i] = [g.levels[i] EXCEPT
                                                    !.status = "open",
                                                    !.order_id = h.levels[i].order_id]
                             /\ Truthy(h.levels[i].order_id)
                             /\ h.levels[i].order_id[1] \in (Len(orders) + 1)..Len(orders')
                             /\ orders'[h.levels[i].order_id[1]] =
                                    Order(s, "buy", g.qty_per_level, g.levels[i].price,
                                          <<"grid", s, "", g.levels[i].level>>,
                                          g.levels[i].level, 0)
                        ELSE /\ h.levels[i] = g.levels[i]
                             /\ h.levels[i].order_id = None
            /\ \A i \in (1..Len(g.levels)) \ PendingBuys(g) : h.levels[i] = g.levels[i]
            /\ last'.ret = Cardinality({i \in 1..Len(g.levels) :
                                g.levels[i].status = "pending"
                                    /\ h.levels[i].status = "open"})
            /\ (last.op = "place_grid_orders" /\ last.symbol = s) =>
                    \A j \in FailedCalls(last) :
                        CallsOf(last', "place_limit_order", last.calls[j].arg) # {}
    ]_vars

\* place_grid_orders has just submitted and opened the one buy level that an
\* earlier call, whose placement for it failed, had left pending
C13_Witness ==
    /\ last.op = "place_grid_orders"
    /\ faults = 1
    /\ last.nf = 0
    /\ last.ret = 1
    /\ Len(last.calls) = 1
    /\ \E i, k \in 1..Len(grids[last.symbol].levels) :
            LET l == grids[last.symbol].levels[i]
                m == grids[last.symbol].levels[k]
            IN  /\ i # k
                /\ l.order_type = "buy" /\ l.status = "open"
                /\ m.order_type = "buy" /\ m.status = "open"
                /\ orders[l.order_id[1]].pair = 0
                /\ orders[m.order_id[1]].pair = 0
                /\ l.order_id[1] = Len(orders)
                /\ last.calls[1].arg = l.level

\* the levels of the grid g that cancel_all_orders has to cancel
OpenLevels(g) ==
    {i \in 1..Len(g.levels) :
        g.levels[i].status = "open" /\ Truthy(g.levels[i].order_id)}

\* C14: in cancel_all_orders, an open level whose cancel_order call did not
\* succeed (the facade returned False) stays as it was, open with its
\* order_id, and is not counted; a level becomes cancelled only when its order
\* was cancelled at the broker, and the count returned is the number of those.
C14_FailedCancelStaysOpen ==
    [][(last'.op = "cancel_all_orders" /\ last'.symbol \in DOMAIN grids) =>
        LET s == last'.symbol
            g == grids[s]
            h == grids'[s]
        IN  /\ \A i \in OpenLevels(g) :
                    \A j \in CallsOf(last', "cancel_order", g.levels[i].order_id[1]) :
                        IF last'.calls[j].ok
                        THEN /\ h.levels[i].status = "cancelled"
                             /\ orders'[g.levels[i].order_id[1]].status = "canceled"
                        ELSE h.levels[i] = g.levels[i]
            /\ last'.ret = Cardinality({j \in 1..Len(last'.calls) :
                                last'.calls[j].call = "cancel_order"
                                    /\ last'.calls[j].ok})
    ]_vars

\* C15: when stop_grid(symbol) has returned for an existing grid and none of
\* its broker calls and store writes failed, the grid is stopped, none of its
\* levels is open, and if the broker held a position in the symbol when
\* stop_grid was called then close_position was called and the broker holds
\* no position in the symbol any more.
C15_StopClosesPosition ==
    [][(/\ last'.op = "stop_grid"
        /\ last'.symbol \in DOMAIN grids
        /\ last'.nf = 0
        /\ FailedCalls(last') = {}) =>
        LET s == last'.symbol IN
        /\ grids'[s].status = "stopped"
        /\ get_open_orders(grids'[s]) = <<>>
        /\ position[s] # 0 =>
                /\ \E j \in 1..Len(last'.calls) :
                        /\ last'.calls[j].call = "close_position"
                        /\ last'.calls[j].symbol = s
                /\ position'[s] = 0
    ]_vars

\* C16: recenter_grid(symbol, new_center, spacing_pct, num_levels) on a symbol
\* without a grid returns False, calls nothing and changes nothing.  On an
\* existing grid it returns True after it has called cancel_order for every
\* open level (every order whose cancellation the broker accepted is
\* cancelled), put in place of the GridState a new one that is active around
\* new_center with the qty_per_level of the old one, zero totals and the
\* levels initialize_grid builds, and then submitted a buy for every buy
\* level: open with the new order when the broker accepted it, pending
\* otherwise; the sell levels are pending.
C16_Recenter ==
    [][last'.op = "recenter_grid" =>
        LET s == last'.symbol
            n == last'.args[3]
        IN  IF s \notin DOMAIN grids
            THEN /\ last'.ret = FALSE
                 /\ last'.calls = <<>>
                 /\ grids' = grids /\ store' = store /\ orders' = orders
            ELSE
                LET g == grids[s]
                    h == grids'[s]
                IN  /\ last'.ret = TRUE
                    /\ \A i \in OpenLevels(g) :
                            LET id == g.levels[i].order_id[1] IN
                            /\ CallsOf(last', "cancel_order", id) # {}
                            /\ \A j \in CallsOf(last', "cancel_order", id) :
                                    /\ last'.calls[j].ok => orders'[id].status = "canceled"
                                    /\ \A k \in 1..Len(last'.calls) :
                                            last'.calls[k].call = "place_limit_order" => j < k
                    /\ h.status = "active"
                    /\ h.center_price = last'.args[1]
                    /\ h.qty_per_level = g.qty_per_level
                    /\ h.total_invested = 0 /\ h.realized_profit = 0
                    /\ Len(h.levels) = 2 * n
                    /\ \A k \in 1..Len(h.levels) :
                            LET l == h.levels[k]
                                buy == k <= n
                                number == IF buy THEN -k ELSE k - n
                                price == LevelPrice(last'.args[1], last'.args[2],
                                                    IF buy THEN -1 ELSE 1, Abs(number))
                                placed == {j \in CallsOf(last', "place_limit_order", number) :
                                                last'.calls[j].ok}
                            IN  /\ l.level = number
                                /\ l.price = price
                                /\ l.order_type = IF buy THEN "buy" ELSE "sell"
                                /\ l.filled_qty = 0 /\ l.filled_price = None
                                /\ buy => CallsOf(last', "place_limit_order", number) # {}
                                /\ IF buy /\ placed # {}
                                   THEN /\ l.status = "open"
                                        /\ Truthy(l.order_id)
                                        /\ l.order_id[1] \in (Len(orders) + 1)..Len(orders')
                                        /\ orders'[l.order_id[1]] =
                                             Order(s, "buy", g.qty_per_level, price,
                                                   <<"grid", s, "", number>>, number, 0)
                                   ELSE l.status = "pending" /\ l.order_id = None
    ]_vars

\* recenter_grid has just replaced a grid that had an open order: the order
\* was cancelled and the buy of the new grid, around another center, is open
C16_Witness ==
    /\ last.op = "recenter_grid"
    /\ last.ret = TRUE
    /\ \E j, k \in 1..Len(last.calls) :
            /\ last.calls[j].call = "cancel_order" /\ last.calls[j].ok
            /\ last.calls[k].call = "place_limit_order" /\ last.calls[k].ok
    /\ grids[last.symbol].center_price = last.args[1]
    /\ \E id \in 1..Len(orders) :
            /\ orders[id].status = "canceled"
            /\ orders[id].limit_price # LevelPrice(last.args[1], last.args[2], -1,
                                                  -orders[id].rung)
    /\ Len(get_open_orders(grids[last.symbol])) > 0

\* C17: index 0 is reserved: in every reachable state no GridState has a level
\* with index 0, and no order at the broker was submitted for rung 0.
C17_IndexZeroReserved ==
    /\ \A s \in DOMAIN grids :
            \A i \in 1..Len(grids[s].levels) : grids[s].levels[i].level # 0
    /\ \A id \in 1..Len(orders) : orders[id].rung # 0

\* C17 without any failed call: the same statement in the behaviours in which
\* every broker call and every store write succeeds.
C17_IndexZeroReserved_NoFailure ==
    faults = 0 => C17_IndexZeroReserved

\* the spacing_pct the grid g was initialized with, read off the price of its
\* sell level 1, which initialize_grid sets and no operation changes
SpacingOf(g) ==
    CHOOSE sp \in AnySpacings :
        g.levels[LevelIndex(g.levels, 1)].price = LevelPrice(g.center_price, sp, 1, 1)

\* C18: replacement orders are priced from the center and the spacing_pct the
\* grid was initialized with.  The sell placed after the fill of buy level L
\* has the limit price center_price * (1 + spacing_pct/100 * (L + 1)), the
\* rebuy placed after the fill of sell level L has the limit price
\* center_price * (1 - spacing_pct/100 * |L - 1|) (each to the nearest cent),
\* and the level that holds the new order has that limit price as its price.
C18_ReplacementPrices ==
    /\ \A k \in AnsweredFills("buy") :
            LET f == last.fills[k]
                g == f.before
                new == orders[f.norders + 1]
                is == LevelIndex(f.after.levels, f.level + 1)
            IN  /\ NearestCent(new.limit_price,
                        g.center_price * (100 + SpacingOf(g) * (f.level + 1)))
                /\ is # 0 => f.after.levels[is].price = new.limit_price
    /\ \A k \in AnsweredFills("sell") :
            LET f == last.fills[k]
                g == f.before
                new == orders[f.norders + 1]
                is == LevelIndex(f.after.levels, f.level - 1)
            IN  /\ NearestCent(new.limit_price,
                        g.center_price * (100 - SpacingOf(g) * Abs(f.level - 1)))
                /\ is # 0 => f.after.levels[is].price = new.limit_price

\* C18 without any failed call: the same statement in the behaviours in which
\* every broker call and every store write succeeds.
C18_ReplacementPrices_NoFailure ==
    faults = 0 => C18_ReplacementPrices

\* C19: sell orders are never pre-placed.  In every reachable state every
\* sell order the manager has submitted answers the detected fill of a buy
\* order, for the quantity of that fill; and no operation other than
\* check_and_update_orders submits a sell order.
C19_SellsAnswerBuyFills ==
    /\ \A id \in 1..Len(orders) :
            orders[id].side = "sell" =>
                /\ orders[id].pair # 0
                /\ orders[orders[id].pair].side = "buy"
                /\ orders[orders[id].pair].status = "filled"
                /\ orders[id].qty = orders[orders[id].pair].filled_qty
    /\ last.op # "check_and_update_orders" =>
            \A j \in 1..Len(last.calls) :
                last.calls[j].call = "place_limit_order" => last.calls[j].side = "buy"

\* C20: when check_and_update_orders finds the order of an open level no
\* longer open at the broker and cancelled or expired, then handling that
\* level changes nothing but the level's status, which becomes cancelled:
\* total_invested, realized_profit, the other levels and the counts of the
\* call are as before, no order is submitted while it is handled, and no order
\* is ever submitted in answer to the cancelled one.
C20_CancelledLevel ==
    last.op = "check_and_update_orders" =>
        \A k \in 1..Len(last.ends) :
            LET e == last.ends[k] IN
            /\ e.before.levels[e.index].status = "open"
            /\ e.before.levels[e.index].order_id = Some(e.order_id)
            /\ orders[e.order_id].status \in {"canceled", "expired"}
            /\ e.after = [e.before EXCEPT !.levels[e.index].status = "cancelled"]
            /\ e.after.total_invested = e.before.total_invested
            /\ e.after.realized_profit = e.before.realized_profit
            /\ e.res_after = e.res_before
            /\ e.calls = <<>>
            /\ \A id \in 1..Len(orders) : orders[id].pair # e.order_id

\* check_and_update_orders has found one level's order cancelled or expired
\* and, in the same call, booked the fill of another level
C20_Witness ==
    /\ last.op = "check_and_update_orders"
    /\ Len(last.ends) > 0
    /\ AnsweredFills("buy") # {}
    /\ \E i \in 1..Len(grids[last.symbol].levels) :
            grids[last.symbol].levels[i].status = "cancelled"

----------------------------------------------------------------------------
\* the operations of the manager the strategy invoked for the symbol s in the
\* step recorded as l, in order
OpsFor(l, s) == SelectSeq(l.ops, LAMBDA o : o[2] = s)

\* the price is further from the center than the recenter threshold
Drifted(price, center_price) ==
    Abs(price - center_price) * 100 > grid_recenter_threshold_pct * center_price

\* C21: for every symbol of a cycle that has a price and a result,
\* _manage_symbol_grid takes exactly one action, the first that applies of:
\* initialize (no grid, or a stopped one), boundary stop, recenter, update;
\* and the manager operations invoked for the symbol are those of that action
\* alone: initialize_grid with place_grid_orders (or nothing when the
\* allocation is insufficient), stop_grid, recenter_grid (or nothing when no
\* new center is available), check_and_update_orders.
C21_OneActionByPriority ==
    [][last'.op = "run_grid_cycle" =>
        \A s \in Range(grid_symbols) :
            (s \in DOMAIN last'.ret /\ Truthy(last'.args[s].price)) =>
                LET price == last'.args[s].price[1]
                    res == last'.ret[s]
                    ops == OpsFor(last', s)
                IN  IF s \notin DOMAIN grids \/ grids[s].status = "stopped"
                    THEN /\ res.action = "initialize"
                         /\ IF "error" \in DOMAIN res.details
                            THEN ops = <<>>
                            ELSE ops = << <<"initialize_grid", s>>,
                                          <<"place_grid_orders", s>> >>
                    ELSE IF Beyond(price, grids[s].center_price)
                    THEN /\ res.action = "boundary_stop"
                         /\ ops = << <<"stop_grid", s>> >>
                    ELSE IF Drifted(price, grids[s].center_price)
                    THEN /\ res.action = "recenter"
                         /\ IF Truthy(last'.args[s].center)
                            THEN ops = << <<"recenter_grid", s>> >>
                            ELSE ops = <<>>
                    ELSE /\ res.action = "update"
                         /\ ops = << <<"check_and_update_orders", s>> >>]_vars

\* a cycle stopped the first symbol's grid at the boundary and updated the
\* second symbol's grid
C21_Witness ==
    /\ last.op = "run_grid_cycle"
    /\ DOMAIN last.ret = Range(grid_symbols)
    /\ last.ret[grid_symbols[1]].action = "boundary_stop"
    /\ last.ret[grid_symbols[2]].action = "update"
    /\ last.ops = << <<"stop_grid", grid_symbols[1]>>,
                     <<"check_and_update_orders", grid_symbols[2]>> >>

----------------------------------------------------------------------------
\* what a cycle did for the symbol t, with the broker's order ids left out:
\* its result, the manager operations invoked for it, the broker calls made
\* for it, its orders at the broker and its GridState, each level with the
\* order it refers to in place of the order's id
OrderView(o) == [o EXCEPT !.pair = 0]

GridView(g, os) ==
    [g EXCEPT !.levels =
        [k \in DOMAIN @ |->
            [level |-> [@[k] EXCEPT !.order_id = None],
             order |-> IF @[k].order_id = None THEN <<>>
                       ELSE <<OrderView(os[@[k].order_id[1]])>>]]]

SymbolView(t, g, os, ret, ops, calls) ==
    [result |-> IF t \in DOMAIN ret THEN <<ret[t]>> ELSE <<>>,
     ops |-> SelectSeq(ops, LAMBDA o : o[2] = t),
     calls |-> [k \in DOMAIN SelectSeq(calls, LAMBDA c : c.symbol = t) |->
                   [SelectSeq(calls, LAMBDA c : c.symbol = t)[k] EXCEPT !.arg = 0]],
     orders |-> [k \in DOMAIN SelectSeq(os, LAMBDA o : o.symbol = t) |->
                    OrderView(SelectSeq(os, LAMBDA o : o.symbol = t)[k])],
     grid |-> IF t \in DOMAIN g THEN <<GridView(g[t], os)>> ELSE <<>>]

ViewOf(t, w) == SymbolView(t, w.grids, w.orders, w.r, w.ops, w.calls)

\* C22: in every cycle, each symbol whose management raised is recorded in
\* results["errors"] and has no result, each other symbol has a result, and
\* what the cycle did for each other symbol (result, operations, broker
\* calls, orders, GridState) is what the same cycle does for it, under the
\* same behaviour of the broker, when nothing is raised.
C22_FailureContained ==
    [][last'.op = "run_grid_cycle" =>
        LET inps == last'.args
            raised == {s \in Range(grid_symbols) : inps[s].raises # "no"}
        IN  /\ last'.errors = SelectSeq(grid_symbols, LAMBDA s : s \in raised)
            /\ DOMAIN last'.ret = Range(grid_symbols) \ raised
            /\ \A s \in raised :
                  \E p \in PlansOf(Failures(PairFailures, orders), MaxFaults) :
                    \E w \in {run_grid_cycle(W0, p, now, grid_symbols,
                                              [inps EXCEPT ![s].raises = "no"])} :
                        \A t \in Range(grid_symbols) \ raised :
                            SymbolView(t, grids', orders', last'.ret, last'.ops,
                                       last'.calls) = ViewOf(t, w)]_vars

\* a cycle in which managing the first symbol raised after it had placed its
\* orders, and the second symbol's grid was initialized and its order placed
C22_Witness ==
    /\ last.op = "run_grid_cycle"
    /\ last.errors = <<grid_symbols[1]>>
    /\ last.args[grid_symbols[1]].raises = "after"
    /\ DOMAIN last.ret = {grid_symbols[2]}
    /\ last.ret[grid_symbols[2]].action = "initialize"
    /\ \E id \in 1..Len(orders) : orders[id].symbol = grid_symbols[2]
    /\ \E id \in 1..Len(orders) : orders[id].symbol = grid_symbols[1]

----------------------------------------------------------------------------
\* the quantity _initialize_new_grid computes for the symbol s from the
\* inputs inp of a cycle
QtyFor(s, inp) ==
    calculate_qty_per_level(s, IF Truthy(inp.center) THEN inp.center[1]
                               ELSE inp.price[1], inp.pv)

\* the orders of the symbol s at the broker
OrdersOf(os, s) == SelectSeq(os, LAMBDA o : o.symbol = s)

\* C23: when a cycle comes to initialize a symbol (it has a price and no
\* grid, or a stopped grid) and the computed qty_per_level is not positive,
\* the symbol's result carries an error, no manager operation is invoked and
\* no broker call is made for it, its orders at the broker are as before, no
\* GridState is created for it, and a stopped GridState is left exactly as
\* it was.
C23_InsufficientAllocation ==
    [][last'.op = "run_grid_cycle" =>
        \A s \in Range(grid_symbols) :
            ( /\ s \in DOMAIN last'.ret
              /\ Truthy(last'.args[s].price)
              /\ s \notin DOMAIN grids \/ grids[s].status = "stopped"
              /\ QtyFor(s, last'.args[s]) <= 0 )
            => /\ "error" \in DOMAIN last'.ret[s].details
               /\ OpsFor(last', s) = <<>>
               /\ \A k \in DOMAIN last'.calls : last'.calls[k].symbol # s
               /\ OrdersOf(orders', s) = OrdersOf(orders, s)
               /\ (s \in DOMAIN grids') = (s \in DOMAIN grids)
               /\ s \in DOMAIN grids => grids'[s] = grids[s]]_vars

\* a cycle found a stopped grid, no money to allocate, and reported the error
C23_Witness ==
    /\ last.op = "run_grid_cycle"
    /\ \E s \in DOMAIN last.ret :
          /\ last.args[s].pv = Some(0)
          /\ last.ret[s].action = "initialize"
          /\ "error" \in DOMAIN last.ret[s].details
          /\ s \in DOMAIN grids
          /\ grids[s].status = "stopped"

----------------------------------------------------------------------------
\* C24: when a symbol has no current price in a cycle, its result is the
\* error result "Could not get current price", no manager operation is
\* invoked and no broker call is made for it, its GridState and its orders at
\* the broker are as before the cycle, every other symbol that has a price
\* gets its own action, and when no other symbol made the manager act the
\* persisted store and the broker's orders are those of before the cycle.
C24_PriceUnavailable ==
    [][last'.op = "run_grid_cycle" =>
        \A s \in Range(grid_symbols) :
            (s \in DOMAIN last'.ret /\ ~Truthy(last'.args[s].price)) =>
               /\ last'.ret[s] =
                      Result("error", [error |-> "Could not get current price"])
               /\ OpsFor(last', s) = <<>>
               /\ \A k \in DOMAIN last'.calls : last'.calls[k].symbol # s
               /\ OrdersOf(orders', s) = OrdersOf(orders, s)
               /\ (s \in DOMAIN grids') = (s \in DOMAIN grids)
               /\ s \in DOMAIN grids => grids'[s] = grids[s]
               /\ \A t \in DOMAIN last'.ret :
                      Truthy(last'.args[t].price) =>
                          last'.ret[t].action \in
                              {"initialize", "boundary_stop", "recenter", "update"}
               /\ last'.ops = <<>> => store' = store /\ orders' = orders]_vars

\* a cycle had no price for the first symbol, whose grid has an order at the
\* broker, and initialized the grid of the second symbol
C24_Witness ==
    /\ last.op = "run_grid_cycle"
    /\ DOMAIN last.ret = Range(grid_symbols)
    /\ last.ret[grid_symbols[1]].action = "error"
    /\ grid_symbols[1] \in DOMAIN grids
    /\ get_open_orders(grids[grid_symbols[1]]) # <<>>
    /\ last.ret[grid_symbols[2]].action = "initialize"
    /\ last.ops = << <<"initialize_grid", grid_symbols[2]>>,
                     <<"place_grid_orders", grid_symbols[2]>> >>

----------------------------------------------------------------------------
\* the number of levels of the grid g of the given side and status
LevelCount(g, order_type, status) ==
    Cardinality({k \in DOMAIN g.levels :
                    g.levels[k].order_type = order_type /\ g.levels[k].status = status})

\* C25: get_grid_status changes nothing (grids, store, orders at the broker,
\* position), calls neither the broker nor save_state, returns None for a
\* symbol without a grid, and otherwise the number of open buy levels, of
\* open sell levels and of filled buy levels together with the grid's
\* status, center_price, total_invested and realized_profit.
C25_StatusReadOnly ==
    [][last'.op = "get_grid_status" =>
        /\ grids' = grids
        /\ store' = store
        /\ orders' = orders
        /\ position' = position
        /\ last'.calls = <<>>
        /\ last'.saved = "none"
        /\ IF last'.symbol \notin DOMAIN grids THEN last'.ret = None
           ELSE /\ last'.ret # None
                /\ LET g == grids[last'.symbol]
                       st == last'.ret[1]
                   IN  /\ st.open_buy_orders = LevelCount(g, "buy", "open")
                       /\ st.open_sell_orders = LevelCount(g, "sell", "open")
                       /\ st.filled_positions = LevelCount(g, "buy", "filled")
                       /\ st.status = g.status
                       /\ st.center_price = g.center_price
                       /\ st.total_invested = g.total_invested
                       /\ st.realized_profit = g.realized_profit]_vars

\* the status of a grid with an open buy, an open sell and a filled buy
C25_Witness ==
    /\ last.op = "get_grid_status"
    /\ last.ret # None
    /\ last.ret[1].open_buy_orders = 1
    /\ last.ret[1].open_sell_orders = 1
    /\ last.ret[1].filled_positions = 1
    /\ last.ret[1].total_invested > 0

----------------------------------------------------------------------------
\* C26: initialize_grid(symbol, center, spacing, n, qty) makes no broker
\* call and leaves the orders at the broker as they are; the symbol's
\* GridState afterwards owes nothing to the one before: active, the given
\* center and quantity, totals 0, 2n levels all pending without order or
\* fill; the GridState of every other symbol is unchanged; and save_state
\* has been called, so that unless the write failed the store holds the
\* grids as they are in memory.
C26_InitializeReplaces ==
    [][last'.op = "initialize_grid" =>
        LET s == last'.symbol
            g == grids'[s]
        IN  /\ last'.calls = <<>>
            /\ orders' = orders
            /\ position' = position
            /\ DOMAIN grids' = DOMAIN grids \cup {s}
            /\ \A t \in DOMAIN grids \ {s} : grids'[t] = grids[t]
            /\ g.symbol = s
            /\ g.status = "active"
            /\ g.center_price = last'.args[1]
            /\ g.qty_per_level = last'.args[4]
            /\ g.total_invested = 0
            /\ g.realized_profit = 0
            /\ Len(g.levels) = 2 * last'.args[3]
            /\ \A k \in DOMAIN g.levels :
                  /\ g.levels[k].status = "pending"
                  /\ g.levels[k].order_id = None
                  /\ g.levels[k].filled_qty = 0
                  /\ g.levels[k].filled_price = None
            /\ last'.ret = Some(g)
            /\ last'.saved \in {"ok", "failed"}
            /\ last'.saved = "ok" =>
                  store' = JsonFile([t \in DOMAIN grids' |->
                                        GridState_to_dict(grids'[t])])]_vars

\* initialize_grid replaced a grid that had an order filled and booked,
\* while the other symbol's grid has an order open
C26_Witness ==
    /\ last.op = "initialize_grid"
    /\ last.saved = "ok"
    /\ \E id \in 1..Len(orders) :
          /\ orders[id].symbol = last.symbol
          /\ orders[id].status = "filled"
          /\ position[last.symbol] > 0
    /\ \E t \in DOMAIN grids \ {last.symbol} : get_open_orders(grids[t]) # <<>>

----------------------------------------------------------------------------
\* the order id is the order_id of a level of some grid
Referenced(id) ==
    \E s \in DOMAIN grids : \E k \in DOMAIN grids[s].levels :
        grids[s].levels[k].order_id = Some(id)

\* C27: when the process is killed inside place_grid_orders or
\* check_and_update_orders and started again from the state file, every
\* order the killed operation placed at the broker is referenced by a level
\* of the recovered state.
C27_CrashSafe ==
    last.op = "kill" =>
        \A id \in (last.args[2] + 1)..Len(orders) : Referenced(id)

\* C27 where no call and no write has failed
C27_CrashSafe_NoFailure == faults = 0 => C27_CrashSafe

----------------------------------------------------------------------------
\* C28: no two orders accepted by the broker carry the same client_order_id
\* (a submission that failed leaves no order, so its id is free to be used
\* again).
C28_ClientOrderIdsUnique ==
    \A i, j \in 1..Len(orders) :
        i # j => orders[i].client_order_id # orders[j].client_order_id

\* C28 where no call and no write has failed
C28_ClientOrderIdsUnique_NoFailure == faults = 0 => C28_ClientOrderIdsUnique

----------------------------------------------------------------------------
\* C29: in every state the order_type of an open level is the side of the
\* order its order_id refers to; and of the fills the last step detected,
\* the fill of a sell order is counted in sells_filled, does not raise
\* total_invested and is not answered with a sell, and the fill of a buy
\* order is counted in buys_filled.
C29_OrderTypeIsOrderSide ==
    /\ \A s \in DOMAIN grids : \A k \in DOMAIN grids[s].levels :
            LET l == grids[s].levels[k] IN
            (l.status = "open" /\ l.order_id # None) =>
                orders[l.order_id[1]].side = l.order_type
    /\ \A k \in 1..Len(last.fills) :
            LET f == last.fills[k] IN
            /\ f.order.side = "sell" =>
                /\ f.res_after.sells_filled = f.res_before.sells_filled + 1
                /\ f.after.total_invested <= f.before.total_invested
                /\ \A j \in 1..Len(f.calls) :
                        f.calls[j].call = "place_limit_order" =>
                            f.calls[j].side = "buy"
            /\ f.order.side = "buy" =>
                f.res_after.buys_filled = f.res_before.buys_filled + 1

\* C29 where no call and no write has failed
C29_OrderTypeIsOrderSide_NoFailure == faults = 0 => C29_OrderTypeIsOrderSide

----------------------------------------------------------------------------
\* C30: total_invested of every GridState is never negative.
C30_TotalInvestedNonNegative ==
    \A s \in DOMAIN grids : grids[s].total_invested >= 0

\* C30 where no call and no write has failed
C30_TotalInvestedNonNegative_NoFailure ==
    faults = 0 => C30_TotalInvestedNonNegative

----------------------------------------------------------------------------
\* the order id is open at the broker for the symbol s and is the order_id of
\* an open level of the grid of s
TrackedOpen(s, id) ==
    \E k \in DOMAIN grids[s].levels :
        /\ grids[s].levels[k].status = "open"
        /\ grids[s].levels[k].order_id = Some(id)

\* C31: after recenter_grid has replaced the grid of a symbol, every order
\* of the symbol that is open at the broker is the order of an open level of
\* the new GridState.
C31_RecenterLeavesNoOrder ==
    (last.op = "recenter_grid" /\ last.ret = TRUE) =>
        \A id \in 1..Len(orders) :
            (orders[id].symbol = last.symbol /\ orders[id].status = "new")
                => TrackedOpen(last.symbol, id)

----------------------------------------------------------------------------
RECURSIVE OpenBuyQty(_, _, _)
\* the total quantity of the buy orders os[1..n] of the symbol s that are open
OpenBuyQty(os, s, n) ==
    IF n = 0 THEN 0
    ELSE OpenBuyQty(os, s, n - 1)
            + (IF os[n].symbol = s /\ os[n].side = "buy" /\ os[n].status = "new"
               THEN os[n].qty ELSE 0)

\* num_levels of the grid g: the levels initialize_grid made below the center
NumLevels(g) ==
    Cardinality({k \in DOMAIN g.levels : g.levels[k].level < 0})

\* C32: in every state, for every symbol with a grid, the buy orders of the
\* symbol that are open at the broker add up to at most
\* num_levels * qty_per_level of the grid.
C32_OpenBuysBounded ==
    \A s \in DOMAIN grids :
        OpenBuyQty(orders, s, Len(orders))
            <= NumLevels(grids[s]) * grids[s].qty_per_level

----------------------------------------------------------------------------
(* The lifecycle of a grid *)

IsActive(gs, s) == s \in DOMAIN gs /\ gs[s].status = "active"
IsStopped(gs, s) == s \in DOMAIN gs /\ gs[s].status = "stopped"

\* C33: a grid goes from active to stopped only in cancel_all_orders and
\* stop_grid, and a symbol that had no active grid has one only after
\* initialize_grid (called by itself or inside recenter_grid); while a symbol
\* has no grid or a grid that is not active, place_grid_orders and
\* check_and_update_orders make no broker call, change neither the grids, the
\* state file, the orders nor the position, and return zero counts.  A
\* restart is not an operation on a grid: it loads what the state file holds.
C33_Lifecycle ==
    [][\A s \in AllSymbols :
        /\ (IsActive(grids, s) /\ IsStopped(grids', s) /\ last'.op # "restart")
               => last'.op \in {"cancel_all_orders", "stop_grid"} /\ last'.symbol = s
        /\ (~IsActive(grids, s) /\ IsActive(grids', s) /\ last'.op # "restart")
               => last'.op \in {"initialize_grid", "recenter_grid"} /\ last'.symbol = s
        /\ (~IsActive(grids, s) /\ last'.symbol = s
               /\ last'.op \in {"place_grid_orders", "check_and_update_orders"})
               => /\ last'.calls = <<>>
                  /\ UNCHANGED <<grids, store, orders, position>>
                  /\ last'.ret = IF last'.op = "place_grid_orders"
                                 THEN 0 ELSE Results(0, 0, 0)]_vars

\* check_and_update_orders has run on a stopped grid while an order of the
\* symbol that the broker filled was waiting
C33_Witness ==
    /\ last.op = "check_and_update_orders"
    /\ IsStopped(grids, last.symbol)
    /\ last.ret = Results(0, 0, 0)
    /\ \E id \in 1..Len(orders) :
           orders[id].symbol = last.symbol /\ orders[id].status = "filled"

----------------------------------------------------------------------------
(* Reconciliation under a scheduler that keeps calling                       *)
(* check_and_update_orders.  Orders fill while the broker holds fewer than  *)
(* MaxOrders, so that the replacement of every fill can still be placed;    *)
(* at most MaxFaults calls fail, so that the status queries succeed in the  *)
(* end.                                                                      *)

\* orders the broker can hold once every fill has its replacement
MaxLiveOrders == 2 * MaxOrders

BrokerFillLive ==
    /\ Len(orders) < MaxOrders
    /\ BrokerFill

\* the broker rejects an order it had accepted
BrokerReject ==
    \E id \in 1..Len(orders) :
        /\ orders[id].status = "new"
        /\ orders' = [orders EXCEPT ![id].status = "rejected"]
        /\ Event("end", orders[id].symbol, <<id>>)
        /\ UNCHANGED <<grid_symbols, grids, store, position, now, faults>>

CheckAndUpdateOrdersLive ==
    \E s \in Range(grid_symbols), p \in Plans({"open", "query", "place", "save"}) :
        \E w \in {check_and_update_orders(W0, p, now, s)} :
            Ran("check_and_update_orders", s, <<>>, w, MaxLiveOrders)

NextLive ==
    \/ InitializeGrid
    \/ PlaceGridOrders
    \/ CheckAndUpdateOrdersLive
    \/ BrokerFillLive
    \/ BrokerEnd
    \/ BrokerReject

SpecLive == Init /\ [][NextLive]_vars /\ WF_vars(CheckAndUpdateOrdersLive)

\* the order id of an open level of the active grid has left the open state
\* at the broker
Terminated(id) ==
    /\ id <= Len(orders)
    /\ orders[id].status # "new"
    /\ IsActive(grids, orders[id].symbol)
    /\ TrackedOpen(orders[id].symbol, id)

StillOpen(id) ==
    /\ id <= Len(orders)
    /\ orders[id].symbol \in DOMAIN grids
    /\ TrackedOpen(orders[id].symbol, id)

\* C34: every open level whose order has reached a terminal state at the
\* broker (filled, cancelled, expired, rejected or any other status that is
\* not open) eventually leaves the status open, when
\* check_and_update_orders keeps being called and the status queries succeed
\* in the end.
C34_TerminatedLeavesOpen ==
    \A id \in 1..MaxLiveOrders : Terminated(id) ~> ~StillOpen(id)

\* C34 for the orders the broker reports as filled, canceled or expired
C34_FilledOrEndedLeavesOpen ==
    \A id \in 1..MaxLiveOrders :
        (Terminated(id) /\ orders[id].status # "rejected") ~> ~StillOpen(id)

----------------------------------------------------------------------------
(* Progress of a cycle *)

\* C35: in every cycle in which a symbol has an active grid, a current price
\* is available and the price is within the boundary, the grid is either
\* replaced by recenter_grid or reconciled by check_and_update_orders; when
\* the price has drifted past the recenter threshold and no new center can
\* be computed, the cycle reports an error for the symbol and no recenter.
C35_CycleMakesProgress ==
    [][last'.op = "run_grid_cycle" =>
        \A s \in Range(grid_symbols) :
            (/\ s \in DOMAIN last'.ret
             /\ Truthy(last'.args[s].price)
             /\ IsActive(grids, s)
             /\ ~Beyond(last'.args[s].price[1], grids[s].center_price)) =>
                /\ OpsFor(last', s) \in {<< <<"recenter_grid", s>> >>,
                                         << <<"check_and_update_orders", s>> >>}
                /\ (Drifted(last'.args[s].price[1], grids[s].center_price)
                        /\ ~Truthy(last'.args[s].center))
                    => /\ last'.ret[s].action # "recenter"
                       /\ \/ last'.ret[s].action = "error"
                          \/ \E j \in 1..Len(last'.errors) : last'.errors[j] = s]_vars

----------------------------------------------------------------------------
(* The levels of a grid *)

\* C36: in every reachable state the level indices of a GridState are
\* unique, every level with status open has an order_id and every level with
\* status pending has none.
C36_LevelsWellFormed ==
    \A s \in DOMAIN grids :
        LET levels == grids[s].levels IN
        /\ \A i, j \in 1..Len(levels) : levels[i].level = levels[j].level => i = j
        /\ \A i \in 1..Len(levels) :
              /\ levels[i].status = "open" => Truthy(levels[i].order_id)
              /\ levels[i].status = "pending" => levels[i].order_id = None

\* check_and_update_orders has appended the open sell level 0 to a grid that
\* was initialized with the levels -2..2 and still has pending levels
C36_Witness ==
    /\ last.op = "check_and_update_orders"
    /\ Len(last.fills) > 0
    /\ \E i \in 1..Len(grids[last.symbol].levels) :
          /\ grids[last.symbol].levels[i].level = 0
          /\ grids[last.symbol].levels[i].status = "open"
    /\ \E i \in 1..Len(grids[last.symbol].levels) :
          grids[last.symbol].levels[i].status = "pending"
    /\ Len(grids[last.symbol].levels) = 5

====
